---- MODULE Spec2Model ----
(***************************************************************************)
(* Model of the Kaizen MCP server's serve loop (internal/mcp/server.go),   *)
(* its JSON-RPC envelope (jsonRPCRequest / jsonRPCResponse) and the tool   *)
(* dispatcher handleToolCall.                                              *)
(*                                                                         *)
(* JSON texts are tagged records [t, v] whose v is the literal's text, so  *)
(* that decoding into Go values and encoding back are real conversions.    *)
(***************************************************************************)
EXTENDS Integers, Sequences, FiniteSets, TLC

\* ------------------------------------------------------------------ bounds
\* Number of frames the input stream delivers before it ends.
MaxFrames == 2

\* --------------------------------------------------------- JSON literals
Absent == [t |-> "absent", v |-> ""]
JNull == [t |-> "null", v |-> "null"]
JNum(s) == [t |-> "num", v |-> s]
JStr(s) == [t |-> "str", v |-> s]

\* ------------------------------------------------- Go values (interface{})
GoNil == [t |-> "nil", v |-> ""]
GoFloat(s) == [t |-> "float64", v |-> s]
GoString(s) == [t |-> "string", v |-> s]

\* strconv.ParseFloat(s, 64) as used by encoding/json for interface{}
\* targets: literals beyond the float64 range are rejected.
OutOfRangeLiterals == {"1e400"}

\* The nearest float64 of a decimal literal, printed back the way
\* json.Marshal prints a float64.  Integers above 2^53 lose their low bits.
Float64Of(s) == IF s = "9007199254740993" THEN "9007199254740992" ELSE s

\* json.Unmarshal(raw, &id) with id of type interface{}
UnmarshalAny(raw) ==
    CASE raw.t = "null" -> [ok |-> TRUE, val |-> GoNil]
      [] raw.t = "num" ->
             IF raw.v \in OutOfRangeLiterals
                THEN [ok |-> FALSE, val |-> GoNil]
                ELSE [ok |-> TRUE, val |-> GoFloat(Float64Of(raw.v))]
      [] raw.t = "str" -> [ok |-> TRUE, val |-> GoString(raw.v)]
      [] OTHER -> [ok |-> FALSE, val |-> GoNil]

\* json.Marshal of an interface{} field tagged omitempty: a nil interface is
\* left out, every other value (0, "" included) is written.
MarshalAnyOmitEmpty(val) ==
    CASE val.t = "nil" -> Absent
      [] val.t = "float64" -> JNum(val.v)
      [] val.t = "string" -> JStr(val.v)

\* ------------------------------------------------------------ wire inputs
\* The JSON value of one tool argument, as far as the handlers look at it:
\* a string with non-blank text, a string that is empty or all whitespace,
\* or a value of any other JSON type (number, null, object, array).
ArgKinds == {"str", "blank", "other"}

\* All argument objects over a set of keys: each key is left out or given.
ArgMapsOver(keys, kinds) == UNION {[d -> kinds] : d \in SUBSET keys}

NoArgs == CHOOSE f \in ArgMapsOver({}, ArgKinds) : TRUE

\* The "params" member of a request: p is the JSON type of params itself,
\* name the "name" member, a the JSON type of "arguments", args its members.
Params(p, name, a, args) == [p |-> p, name |-> name, a |-> a, args |-> args]

ParamsAbsent == Params("absent", Absent, "absent", NoArgs)
ParamsNull == Params("null", Absent, "absent", NoArgs)
ParamsArray == Params("array", Absent, "absent", NoArgs)
ParamsEmptyObject == Params("object", Absent, "absent", NoArgs)

RegisteredTools ==
    {"akuma.query", "akuma.explain", "akuma.schema", "enzan.summary",
     "enzan.burn", "sozo.generate", "sozo.schemas"}

\* Argument objects tried with each tool name: every combination of the
\* arguments its handler reads, and a few optional ones.
ArgsTried(name) ==
    CASE name = "akuma.query" ->
             ArgMapsOver({"dialect", "prompt"}, ArgKinds)
             \cup {[dialect |-> "str", prompt |-> "str", mode |-> "str"],
                   [dialect |-> "str", mode |-> "str", maxRows |-> "other"]}
      [] name = "akuma.explain" -> ArgMapsOver({"sql"}, ArgKinds)
      [] name = "akuma.schema" ->
             ArgMapsOver({"tables"}, ArgKinds)
             \cup {[tables |-> "other", version |-> "str"],
                   [version |-> "str"]}
      [] name = "enzan.summary" -> ArgMapsOver({"window"}, {"str"})
      [] name = "sozo.generate" ->
             ArgMapsOver({"records", "schema", "schemaName"}, {"other"})
             \cup {[records |-> "other", schemaName |-> "str", seed |-> "other"]}
      [] OTHER -> {NoArgs, [prompt |-> "str"]}

ToolNamesTried == RegisteredTools \cup {"nope.tool", ""}

\* Well-formed tools/call params ...
ToolCallParams ==
    UNION {{Params("object", JStr(n), "object", a) : a \in ArgsTried(n)}
           : n \in ToolNamesTried}

\* ... and the other shapes "params" can take.
OddParams ==
    {ParamsAbsent, ParamsNull, ParamsArray, ParamsEmptyObject,
     Params("object", JNum("1"), "object", NoArgs),
     Params("object", JNull, "absent", NoArgs),
     Params("object", JStr("akuma.query"), "string", NoArgs),
     Params("object", JStr("akuma.query"), "null", NoArgs),
     Params("object", JStr("enzan.burn"), "absent", NoArgs),
     Params("object", JStr("enzan.burn"), "null", NoArgs),
     Params("object", JStr("nope.tool"), "string", NoArgs)}

\* Request ids tried: absent, the explicit empty values, ordinary values
\* and numbers at the edge of float64.
IdsTried ==
    {Absent, JNull, JNum("0"), JStr(""), JNum("7"), JStr("a"),
     JNum("9007199254740993"), JNum("1e400")}

FewIds == {Absent, JNum("7")}

KnownMethods ==
    {"initialize", "ping", "tools/list", "tools/call",
     "initialized", "notifications/initialized"}

\* One payload handed to json.Unmarshal: shape is the JSON type of the
\* whole text ("invalid" when it is not JSON at all).
Payload(shape, jsonrpc, id, method, params) ==
    [shape |-> shape, jsonrpc |-> jsonrpc, id |-> id, method |-> method,
     params |-> params]

Message(id, method, params) ==
    Payload("object", JStr("2.0"), id, method, params)

\* One call with acceptable arguments for every registered tool.
ValidCalls ==
    {Params("object", JStr("akuma.query"), "object",
            [dialect |-> "str", prompt |-> "str"]),
     Params("object", JStr("akuma.explain"), "object", [sql |-> "str"]),
     Params("object", JStr("akuma.schema"), "object", [tables |-> "other"]),
     Params("object", JStr("enzan.summary"), "object", NoArgs),
     Params("object", JStr("enzan.burn"), "object", NoArgs),
     Params("object", JStr("sozo.generate"), "object",
            [records |-> "other", schemaName |-> "other"]),
     Params("object", JStr("sozo.schemas"), "object", NoArgs)}

PayloadsTried ==
    \* every id with a method answered without the executor
    {Message(i, JStr("ping"), ParamsAbsent) : i \in IdsTried}
    \* every method without id, with an id, with the id null
    \cup {Message(i, JStr(m), ParamsAbsent) :
             i \in FewIds \cup {JNull},
             m \in (KnownMethods \ {"ping", "tools/call"}) \cup {"", "nope/method"}}
    \cup {Message(i, JStr("initialize"), ParamsEmptyObject) : i \in FewIds}
    \cup {Message(JNum("7"), JStr("initialize"), p) :
             p \in {ParamsNull, ParamsArray}}
    \* tool calls
    \cup {Message(JNum("7"), JStr("tools/call"), p) :
             p \in ToolCallParams \cup OddParams}
    \cup {Message(Absent, JStr("tools/call"), p) :
             p \in ValidCalls \cup OddParams}
    \cup {Message(i, JStr("tools/call"), p) :
             i \in {JNull, JStr("")},
             p \in {Params("object", JStr("akuma.explain"), "object", NoArgs)}}
    \* envelopes with members missing, null or of the wrong type
    \cup {Payload("object", j, i, m, ParamsAbsent) :
             j \in {Absent, JNum("2")},
             i \in FewIds,
             m \in {Absent, JNull, JNum("5"), JStr("ping")}}
    \cup {Payload("object", JNull, JNum("7"), JStr("ping"), ParamsAbsent)}
    \* texts that are not a JSON object
    \cup {Payload(s, Absent, Absent, Absent, ParamsAbsent) :
             s \in {"invalid", "array", "null"}}

\* -------------------------------------------------------- envelope codec
\* jsonRPCRequest after decoding: ID and Params keep the raw JSON text
\* (json.RawMessage), Method is a Go string.
Request(id, method, params) == [ID |-> id, Method |-> method, Params |-> params]

ZeroRequest == Request(Absent, "", ParamsAbsent)

\* Decoding a JSON member into a Go string field: a missing member or null
\* leaves the zero value, any non-string value is a type error.
UnmarshalString(j) ==
    CASE j.t \in {"absent", "null"} -> [ok |-> TRUE, val |-> ""]
      [] j.t = "str" -> [ok |-> TRUE, val |-> j.v]
      [] OTHER -> [ok |-> FALSE, val |-> ""]

\* Variant of UnmarshalRequest: a member of the wrong type is skipped and
\* the decoding error is lost.
UnmarshalRequestLenient(payload) ==
    CASE payload.shape \in {"null", "array"} -> [ok |-> TRUE, req |-> ZeroRequest]
      [] payload.shape = "object" ->
             [ok |-> TRUE,
              req |-> Request(payload.id, UnmarshalString(payload.method).val,
                              payload.params)]
      [] OTHER -> [ok |-> FALSE, req |-> ZeroRequest]

\* json.Unmarshal(payload, &req) with req a jsonRPCRequest.  A RawMessage
\* member keeps whatever literal is present, the literal null included.
UnmarshalRequest(payload) ==
    CASE payload.shape = "null" -> [ok |-> TRUE, req |-> ZeroRequest]
      [] payload.shape = "object" ->
             LET j == UnmarshalString(payload.jsonrpc)
                 m == UnmarshalString(payload.method)
             IN  IF j.ok /\ m.ok
                    THEN [ok |-> TRUE,
                          req |-> Request(payload.id, m.val, payload.params)]
                    ELSE [ok |-> FALSE, req |-> ZeroRequest]
      [] OTHER -> [ok |-> FALSE, req |-> ZeroRequest]

\* The number of bytes of a JSON literal; a string literal has its quotes.
RawLen(j) ==
    CASE j.t = "absent" -> 0
      [] j.t = "str" -> Len(j.v) + 2
      [] OTHER -> Len(j.v)

\* Variant of LenID: the id is never seen as empty (as if a missing member
\* were stored as the text null).
LenIDNeverEmpty(r) == IF r.ID.t = "absent" THEN Len("null") ELSE RawLen(r.ID)

\* Variant of LenID: the literal null counts as no id.
LenIDNullEmpty(r) == IF r.ID.t \in {"absent", "null"} THEN 0 ELSE RawLen(r.ID)

\* len(req.ID): a RawMessage is empty only when the member was not there.
LenID(r) == RawLen(r.ID)

\* jsonRPCError; a nil *jsonRPCError is NilError.
RPCError(code, message, data) ==
    [isNil |-> FALSE, Code |-> code, Message |-> message, Data |-> data]

NilError == [isNil |-> TRUE, Code |-> 0, Message |-> "", Data |-> GoNil]

\* The result values Serve and handleToolCall build.  info carries the
\* strings of the fixed documents (initialize, tools/list).
Result(k, isError, text, structured, info) ==
    [k |-> k, isError |-> isError, text |-> text, structured |-> structured,
     info |-> info]

NilResult == Result("nil", FALSE, "", "", <<>>)

\* jsonRPCResponse as built by Serve.
Response(id, result, rpcErr) ==
    [JSONRPC |-> "2.0", ID |-> id, Result |-> result, Error |-> rpcErr]

\* json.Marshal(response): id, result and error are tagged omitempty, so a
\* nil interface or nil pointer leaves the member out of the object.
MarshalResponse(resp) ==
    [jsonrpc |-> resp.JSONRPC,
     id |-> MarshalAnyOmitEmpty(resp.ID),
     hasResult |-> resp.Result.k # "nil",
     result |-> resp.Result,
     hasError |-> ~resp.Error.isNil,
     error |-> [code |-> resp.Error.Code, message |-> resp.Error.Message,
                data |-> MarshalAnyOmitEmpty(resp.Error.Data)]]

\* ------------------------------------------------------------- constants
protocol == "2024-11-05"
serverName == "kaizen-mcp"
serverVersion == "1.0.0"

\* Variant of toolDefinitions: the catalog without akuma.schema.
toolDefinitionsWithoutSchema ==
    <<"akuma.query", "akuma.explain", "enzan.summary", "enzan.burn",
      "sozo.generate", "sozo.schemas">>

\* Names of the catalog returned by tools/list, in order.
toolDefinitions ==
    <<"akuma.query", "akuma.explain", "akuma.schema", "enzan.summary",
      "enzan.burn", "sozo.generate", "sozo.schemas">>

\* ---------------------------------------------------------- tool handlers
\* Variant of UnmarshalToolsCallParams: arguments of the wrong JSON type are
\* taken as no arguments.
UnmarshalToolsCallParamsLenient(raw) ==
    LET zero == [Name |-> "", Arguments |-> NoArgs]
        fail(msg) == [ok |-> FALSE, err |-> msg, params |-> zero]
    IN  CASE raw.p = "absent" -> fail("unexpected end of JSON input")
          [] raw.p = "null" -> [ok |-> TRUE, err |-> "", params |-> zero]
          [] raw.p = "object" ->
                 LET n == UnmarshalString(raw.name)
                 IN  IF ~n.ok
                        THEN fail("json: cannot unmarshal number into Go struct field toolsCallParams.name of type string")
                     ELSE [ok |-> TRUE, err |-> "",
                           params |-> [Name |-> n.val,
                                       Arguments |-> IF raw.a = "object"
                                                        THEN raw.args
                                                        ELSE NoArgs]]
          [] OTHER -> fail("json: cannot unmarshal array into Go value of type mcp.toolsCallParams")

\* toolsCallParams after decoding.
\* json.Unmarshal(raw, &params): empty input and non-object values are
\* errors, null leaves the zero value; "arguments" must be an object or
\* null, "name" a string or null.
UnmarshalToolsCallParams(raw) ==
    LET zero == [Name |-> "", Arguments |-> NoArgs]
        fail(msg) == [ok |-> FALSE, err |-> msg, params |-> zero]
    IN  CASE raw.p = "absent" -> fail("unexpected end of JSON input")
          [] raw.p = "null" -> [ok |-> TRUE, err |-> "", params |-> zero]
          [] raw.p = "object" ->
                 LET n == UnmarshalString(raw.name)
                 IN  IF ~n.ok
                        THEN fail("json: cannot unmarshal number into Go struct field toolsCallParams.name of type string")
                     ELSE IF raw.a \notin {"absent", "null", "object"}
                        THEN fail("json: cannot unmarshal string into Go struct field toolsCallParams.arguments of type map[string]interface {}")
                     ELSE [ok |-> TRUE, err |-> "",
                           params |-> [Name |-> n.val,
                                       Arguments |-> IF raw.a = "object"
                                                        THEN raw.args
                                                        ELSE NoArgs]]
          [] OTHER -> fail("json: cannot unmarshal array into Go value of type mcp.toolsCallParams")

\* _, ok := args[key]
HasKey(args, key) == key \in DOMAIN args

\* s, _ := args[key].(string); strings.TrimSpace(s) == ""
BlankString(args, key) == ~(HasKey(args, key) /\ args[key] = "str")

\* The members of args copied into the executor payload.
Copied(args, keys) == [k \in (DOMAIN args) \cap keys |-> args[k]]

\* A handler's outcome before the executor runs: a validation error, or the
\* call it hands to the executor (verb, path, payload; hasBody is FALSE for
\* a nil payload).
HandlerError(msg) ==
    [k |-> "error", text |-> msg, verb |-> "", path |-> "", hasBody |-> FALSE,
     body |-> NoArgs]

HandlerCall(verb, path, hasBody, body) ==
    [k |-> "call", text |-> "", verb |-> verb, path |-> path,
     hasBody |-> hasBody, body |-> body]

NoCall == HandlerError("")

\* Variant of callAkumaQuery: the prompt is not validated.
callAkumaQueryNoPromptCheck(args) ==
    IF BlankString(args, "dialect") THEN HandlerError("dialect is required")
    ELSE HandlerCall("POST", "/v1/akuma/query", TRUE,
                     Copied(args, {"dialect", "prompt", "mode", "maxRows",
                                   "guardrails"}))

callAkumaQuery(args) ==
    IF BlankString(args, "dialect") THEN HandlerError("dialect is required")
    ELSE IF BlankString(args, "prompt") THEN HandlerError("prompt is required")
    ELSE HandlerCall("POST", "/v1/akuma/query", TRUE,
                     Copied(args, {"dialect", "prompt", "mode", "maxRows",
                                   "guardrails"}))

\* Variant of callAkumaExplain: the sql argument is not validated.
callAkumaExplainNoCheck(args) ==
    HandlerCall("POST", "/v1/akuma/explain", TRUE, Copied(args, {"sql"}))

callAkumaExplain(args) ==
    IF BlankString(args, "sql") THEN HandlerError("sql is required")
    ELSE HandlerCall("POST", "/v1/akuma/explain", TRUE, Copied(args, {"sql"}))

callAkumaSchema(args) ==
    IF ~HasKey(args, "tables") THEN HandlerError("tables is required")
    ELSE HandlerCall("POST", "/v1/akuma/schema", TRUE,
                     Copied(args, {"tables", "version"}))

callEnzanSummary(args) ==
    HandlerCall("POST", "/v1/enzan/summary", TRUE,
                [k \in {"window"} \cup (DOMAIN args \cap {"groupBy"}) |->
                    IF HasKey(args, k) THEN args[k] ELSE "str"])

callSozoGenerate(args) ==
    IF ~HasKey(args, "records") THEN HandlerError("records is required")
    ELSE IF ~HasKey(args, "schema") /\ ~HasKey(args, "schemaName")
        THEN HandlerError("schema or schemaName is required")
    ELSE HandlerCall("POST", "/v1/sozo/generate", TRUE,
                     Copied(args, {"records", "schema", "schemaName",
                                   "correlations", "seed"}))

\* The switch of handleToolCall over params.Name; "unknown" is the default
\* branch.
UnknownTool ==
    [k |-> "unknown", text |-> "", verb |-> "", path |-> "", hasBody |-> FALSE,
     body |-> NoArgs]

\* Variant of ToolSwitch: the default branch forwards the call instead of
\* rejecting the name.
ToolSwitchDefaultCalls(params) ==
    CASE params.Name = "akuma.query" -> callAkumaQuery(params.Arguments)
      [] params.Name = "akuma.explain" -> callAkumaExplain(params.Arguments)
      [] params.Name = "akuma.schema" -> callAkumaSchema(params.Arguments)
      [] params.Name = "enzan.summary" -> callEnzanSummary(params.Arguments)
      [] params.Name = "sozo.generate" -> callSozoGenerate(params.Arguments)
      [] params.Name = "sozo.schemas" ->
             HandlerCall("GET", "/v1/sozo/schemas", FALSE, NoArgs)
      [] OTHER -> HandlerCall("GET", "/v1/enzan/burn", FALSE, NoArgs)

ToolSwitch(params) ==
    CASE params.Name = "akuma.query" -> callAkumaQuery(params.Arguments)
      [] params.Name = "akuma.explain" -> callAkumaExplain(params.Arguments)
      [] params.Name = "akuma.schema" -> callAkumaSchema(params.Arguments)
      [] params.Name = "enzan.summary" -> callEnzanSummary(params.Arguments)
      [] params.Name = "enzan.burn" ->
             HandlerCall("GET", "/v1/enzan/burn", FALSE, NoArgs)
      [] params.Name = "sozo.generate" -> callSozoGenerate(params.Arguments)
      [] params.Name = "sozo.schemas" ->
             HandlerCall("GET", "/v1/sozo/schemas", FALSE, NoArgs)
      [] OTHER -> UnknownTool

\* Variant of ToolFailure: the handler's error is swallowed and a nil
\* result returned.
ToolFailureNil(text) == Result("nil", FALSE, "", "", <<>>)

\* The tool result for a handler or executor error.
ToolFailure(text) == Result("tool", TRUE, text, "", <<>>)

\* json.MarshalIndent(data, "", "  ") of the executor's decoded object.
MarshalIndent(data) ==
    IF data = "{}" THEN "{}" ELSE "{\n  \"sql\": \"SELECT 1\"\n}"

\* The tool result for a decoded executor payload.
ToolSuccess(data) == Result("tool", FALSE, MarshalIndent(data), data, <<>>)

\* handleToolCall up to the point where it either returns or blocks in the
\* executor: ret is TRUE when it returns (result, rpcErr) at once.
HandleToolCall(raw) ==
    LET u == UnmarshalToolsCallParams(raw)
        h == ToolSwitch(u.params)
        return(res, e) == [ret |-> TRUE, result |-> res, rpcErr |-> e,
                           call |-> NoCall]
    IN  IF ~u.ok
           THEN return(NilResult,
                       RPCError(-32602, "invalid tool call params",
                                GoString(u.err)))
        ELSE IF h.k = "unknown"
           THEN return(NilResult,
                       RPCError(-32602, "unknown tool", GoString(u.params.Name)))
        ELSE IF h.k = "error"
           THEN return(ToolFailure(h.text), NilError)
        ELSE [ret |-> FALSE, result |-> NilResult, rpcErr |-> NilError,
              call |-> h]

\* kaizenAPIClient.call: what the executor can return for a call.  Without
\* a credential it fails before any request is sent; otherwise the backend
\* answers, fails, or the deadline of the call's context expires.
Outcome(ok, text, data) == [ok |-> ok, text |-> text, data |-> data]

NoOutcome == Outcome(TRUE, "", "")

ExecutorOutcomes(key) ==
    IF key = ""
       THEN {[ok |-> FALSE, text |-> "KAIZEN_API_KEY is not set", data |-> ""]}
       ELSE {[ok |-> TRUE, text |-> "", data |-> "{}"],
             [ok |-> TRUE, text |-> "", data |-> "{\"sql\":\"SELECT 1\"}"],
             [ok |-> FALSE, text |-> "request failed: context deadline exceeded", data |-> ""],
             [ok |-> FALSE, text |-> "Kaizen API request failed (status=500)", data |-> ""]}

\* -------------------------------------------------------------- transport
\* A Go string or []byte is the sequence of its bytes, each byte a string of
\* one character.
Bytes(s) == [i \in 1..Len(s) |-> SubSeq(s, i, i)]

\* The white space strings.TrimSpace removes (ASCII range).
Space == {" ", "\t", "\n", "\r", "\f"}

RECURSIVE TrimLeft(_, _)
TrimLeft(b, cutset) ==
    IF b # <<>> /\ Head(b) \in cutset THEN TrimLeft(Tail(b), cutset) ELSE b

RECURSIVE TrimRight(_, _)
TrimRight(b, cutset) ==
    IF b # <<>> /\ b[Len(b)] \in cutset
       THEN TrimRight(SubSeq(b, 1, Len(b) - 1), cutset)
       ELSE b

TrimSpace(b) == TrimLeft(TrimRight(b, Space), Space)

HasPrefix(b, prefix) ==
    Len(b) >= Len(prefix) /\ SubSeq(b, 1, Len(prefix)) = prefix

\* strings.IndexByte, counted from 1; 0 when c does not occur.
IndexByte(b, c) ==
    IF \E i \in DOMAIN b : b[i] = c
       THEN CHOOSE i \in DOMAIN b : b[i] = c /\ \A j \in 1..(i - 1) : b[j] # c
       ELSE 0

\* strings.SplitN(s, sep, 2) with a separator of one byte.
SplitN2(b, sep) ==
    LET i == IndexByte(b, sep)
    IN  IF i = 0 THEN <<b>>
                 ELSE <<SubSeq(b, 1, i - 1), SubSeq(b, i + 1, Len(b))>>

Range(f) == {f[i] : i \in DOMAIN f}

Uppers == Bytes("ABCDEFGHIJKLMNOPQRSTUVWXYZ")
Lowers == Bytes("abcdefghijklmnopqrstuvwxyz")

ToLower(c) ==
    IF \E i \in DOMAIN Uppers : Uppers[i] = c
       THEN Lowers[CHOOSE i \in DOMAIN Uppers : Uppers[i] = c]
       ELSE c

\* Variant of EqualFold: the letter case has to agree.
EqualFoldExact(a, b) == a = b

\* strings.EqualFold on ASCII text.
EqualFold(a, b) ==
    Len(a) = Len(b) /\ \A i \in DOMAIN a : ToLower(a[i]) = ToLower(b[i])

Digits == Bytes("0123456789")

DigitValue(c) == (CHOOSE i \in DOMAIN Digits : Digits[i] = c) - 1

RECURSIVE DecimalValue(_)
DecimalValue(ds) ==
    IF ds = <<>> THEN 0
       ELSE 10 * DecimalValue(SubSeq(ds, 1, Len(ds) - 1))
            + DigitValue(ds[Len(ds)])

\* strconv.Atoi: an optional sign, then one or more decimal digits.  (The
\* texts read here have at most nine digits, so the int range is not met.)
Atoi(b) ==
    LET signed == b # <<>> /\ b[1] \in {"+", "-"}
        ds == IF signed THEN Tail(b) ELSE b
    IN  IF ds = <<>> \/ \E i \in DOMAIN ds : ds[i] \notin Range(Digits)
           THEN [ok |-> FALSE, n |-> 0]
           ELSE [ok |-> TRUE,
                 n |-> IF b[1] = "-" THEN 0 - DecimalValue(ds)
                                     ELSE DecimalValue(ds)]

\* The %d verb of fmt.Fprintf for a length.
RECURSIVE Itoa(_)
Itoa(n) ==
    IF n < 10 THEN <<Digits[n + 1]>>
              ELSE Itoa(n \div 10) \o <<Digits[(n % 10) + 1]>>

\* Go error values, as far as Serve looks at them: the message, and whether
\* errors.Is(err, io.EOF) holds.  fmt.Errorf with %w keeps the wrapped error
\* in the chain.
GoError(msg, isEOF) == [msg |-> msg, isEOF |-> isEOF]

NoError == GoError("", FALSE)
EOF == GoError("EOF", TRUE)
ErrUnexpectedEOF == GoError("unexpected EOF", FALSE)
ErrInput == GoError("read /dev/stdin: input/output error", FALSE)

Errorf(msg) == GoError(msg, FALSE)

ErrorfW(prefix, err) == GoError(prefix \o err.msg, err.isEOF)

\* The bufio.Reader over standard input: the bytes still to come, and the
\* error the stream ends with (io.EOF when the client closes it, another
\* error when the read fails).
Reader(buf, end) == [buf |-> buf, end |-> end]

\* reader.ReadString(delim): the bytes up to and including the first delim;
\* without one, everything left together with the stream's error.
ReadString(r, delim) ==
    LET i == IndexByte(r.buf, delim)
    IN  IF i # 0
           THEN [line |-> SubSeq(r.buf, 1, i), err |-> NoError,
                 reader |-> Reader(SubSeq(r.buf, i + 1, Len(r.buf)), r.end)]
           ELSE [line |-> r.buf, err |-> r.end, reader |-> Reader(<<>>, r.end)]

\* Variant of ReadFull: the payload is taken to run to the end of its line.
ReadFullToLineEnd(r, n) ==
    [bytes |-> ReadString(r, "\n").line, err |-> NoError,
     reader |-> ReadString(r, "\n").reader]

\* io.ReadFull(reader, payload) with len(payload) = n: io.EOF only when no
\* byte was read, io.ErrUnexpectedEOF when the stream ended part-way.
ReadFull(r, n) ==
    IF Len(r.buf) >= n
       THEN [bytes |-> SubSeq(r.buf, 1, n), err |-> NoError,
             reader |-> Reader(SubSeq(r.buf, n + 1, Len(r.buf)), r.end)]
       ELSE [bytes |-> <<>>,
             err |-> IF r.end = EOF /\ Len(r.buf) > 0 THEN ErrUnexpectedEOF
                                                      ELSE r.end,
             reader |-> Reader(<<>>, r.end)]

RECURSIVE parseContentLength(_)

\* Variant of parseContentLength: a missing or unusable Content-Length is
\* reported as io.EOF.
parseContentLengthAsEOF(headers) ==
    IF headers = <<>>
       THEN [length |-> 0, err |-> EOF]
       ELSE LET parts == SplitN2(Head(headers), ":")
            IN  IF Len(parts) # 2
                   THEN parseContentLength(Tail(headers))
                ELSE IF ~EqualFold(TrimSpace(parts[1]), Bytes("Content-Length"))
                   THEN parseContentLength(Tail(headers))
                ELSE LET a == Atoi(TrimSpace(parts[2]))
                     IN  IF ~a.ok \/ a.n <= 0
                            THEN [length |-> 0, err |-> EOF]
                            ELSE [length |-> a.n, err |-> NoError]

\* parseContentLength: the first header named Content-Length decides.
parseContentLength(headers) ==
    IF headers = <<>>
       THEN [length |-> 0, err |-> Errorf("missing Content-Length header")]
       ELSE LET parts == SplitN2(Head(headers), ":")
            IN  IF Len(parts) # 2
                   THEN parseContentLength(Tail(headers))
                ELSE IF ~EqualFold(TrimSpace(parts[1]), Bytes("Content-Length"))
                   THEN parseContentLength(Tail(headers))
                ELSE LET rawLen == TrimSpace(parts[2])
                         a == Atoi(rawLen)
                     IN  IF ~a.ok \/ a.n <= 0
                            THEN [length |-> 0,
                                  err |-> Errorf("invalid Content-Length value")]
                            ELSE [length |-> a.n, err |-> NoError]

\* The loop of readMessage that collects header lines up to the blank line.
RECURSIVE ReadHeaders(_, _)
ReadHeaders(r, headers) ==
    LET l == ReadString(r, "\n")
        clean == TrimRight(l.line, {"\r", "\n"})
    IN  IF l.err # NoError
           THEN [headers |-> headers, err |-> l.err, reader |-> l.reader]
        ELSE IF clean = <<>>
           THEN [headers |-> headers, err |-> NoError, reader |-> l.reader]
        ELSE ReadHeaders(l.reader, Append(headers, clean))

\* What readMessage returns: (payload, nil) or (nil, err), and the reader
\* as the call leaves it.
Returned(payload, err, r) == [payload |-> payload, err |-> err, reader |-> r]

\* The part of readMessage after the first line: header block and payload.
ReadFramed(firstLine, r) ==
    LET h == ReadHeaders(r, <<TrimRight(firstLine, {"\r", "\n"})>>)
        cl == parseContentLength(h.headers)
        p == ReadFull(h.reader, cl.length)
    IN  IF h.err # NoError THEN Returned(<<>>, h.err, h.reader)
        ELSE IF cl.err # NoError THEN Returned(<<>>, cl.err, h.reader)
        ELSE IF p.err # NoError
           THEN Returned(<<>>, ErrorfW("failed to read payload: ", p.err),
                         p.reader)
        ELSE Returned(p.bytes, NoError, p.reader)

\* Variant of readMessage: a JSON line is returned as it was read, white
\* space and newline included.
readMessageWholeLine(r) ==
    LET first == ReadString(r, "\n")
        trimmed == TrimSpace(first.line)
    IN  IF first.err # NoError
           THEN IF first.err.isEOF /\ trimmed = <<>>
                   THEN Returned(<<>>, EOF, first.reader)
                ELSE IF first.err.isEOF /\ HasPrefix(trimmed, <<"{">>)
                   THEN Returned(first.line, NoError, first.reader)
                ELSE Returned(<<>>, first.err, first.reader)
        ELSE IF trimmed = <<>>
           THEN Returned(<<>>, Errorf("received empty message"), first.reader)
        ELSE IF HasPrefix(trimmed, <<"{">>)
           THEN Returned(first.line, NoError, first.reader)
        ELSE ReadFramed(first.line, first.reader)

\* Variant of readMessage: at io.EOF whatever is buffered is given up.
readMessageDropsLastLine(r) ==
    LET first == ReadString(r, "\n")
        trimmed == TrimSpace(first.line)
    IN  IF first.err # NoError
           THEN IF first.err.isEOF
                   THEN Returned(<<>>, EOF, first.reader)
                   ELSE Returned(<<>>, first.err, first.reader)
        ELSE IF trimmed = <<>>
           THEN Returned(<<>>, Errorf("received empty message"), first.reader)
        ELSE IF HasPrefix(trimmed, <<"{">>)
           THEN Returned(trimmed, NoError, first.reader)
        ELSE ReadFramed(first.line, first.reader)

\* readMessage: one payload per call, from a bare JSON line or from a
\* header block followed by the declared number of bytes.
readMessage(r) ==
    LET first == ReadString(r, "\n")
        trimmed == TrimSpace(first.line)
    IN  IF first.err # NoError
           THEN IF first.err.isEOF /\ trimmed = <<>>
                   THEN Returned(<<>>, EOF, first.reader)
                ELSE IF first.err.isEOF /\ HasPrefix(trimmed, <<"{">>)
                   THEN Returned(trimmed, NoError, first.reader)
                ELSE Returned(<<>>, first.err, first.reader)
        ELSE IF trimmed = <<>>
           THEN Returned(<<>>, Errorf("received empty message"), first.reader)
        ELSE IF HasPrefix(trimmed, <<"{">>)
           THEN Returned(trimmed, NoError, first.reader)
        ELSE ReadFramed(first.line, first.reader)

\* ------------------------------------------------------ JSON on the wire
\* Go values as encoding/json sees them: besides nil, float64 and string
\* there are booleans, slices and maps.  A map is kept as the sequence of
\* its <<key, value>> pairs in the order json.Marshal writes them (sorted
\* by key).
GoBool(b) == [t |-> "bool", v |-> IF b THEN "true" ELSE "false"]
GoSlice(items) == [t |-> "slice", v |-> items]
GoMap(pairs) == [t |-> "map", v |-> pairs]

\* Variant of EscapeByte: every byte is written as it is.
EscapeByteNone(c) == <<c>>

\* The escape json.Marshal writes for one byte of a string.
EscapeByte(c) ==
    CASE c = "\"" -> <<"\\", "\"">>
      [] c = "\\" -> <<"\\", "\\">>
      [] c = "\n" -> <<"\\", "n">>
      [] c = "\r" -> <<"\\", "r">>
      [] c = "\t" -> <<"\\", "t">>
      [] c = "<" -> Bytes("\\u003c")
      [] c = ">" -> Bytes("\\u003e")
      [] c = "&" -> Bytes("\\u0026")
      [] OTHER -> <<c>>

\* The escaped text of a string, put together half by half.
RECURSIVE EscapeBytes(_)
EscapeBytes(b) ==
    IF b = <<>> THEN <<>>
    ELSE IF Len(b) = 1 THEN EscapeByte(b[1])
    ELSE EscapeBytes(SubSeq(b, 1, Len(b) \div 2))
         \o EscapeBytes(SubSeq(b, Len(b) \div 2 + 1, Len(b)))

\* A Go string as a JSON string literal.
MarshalString(s) == <<"\"">> \o EscapeBytes(Bytes(s)) \o <<"\"">>

\* strconv.Itoa for an int of either sign (jsonRPCError.Code).
MarshalInt(n) == IF n < 0 THEN <<"-">> \o Itoa(0 - n) ELSE Itoa(n)

RECURSIVE MarshalValue(_)
RECURSIVE MarshalItems(_)
RECURSIVE MarshalPairs(_)

\* json.Marshal of an interface{} value.
MarshalValue(val) ==
    CASE val.t = "nil" -> Bytes("null")
      [] val.t = "bool" -> Bytes(val.v)
      [] val.t = "float64" -> Bytes(val.v)
      [] val.t = "string" -> MarshalString(val.v)
      [] val.t = "slice" -> <<"[">> \o MarshalItems(val.v) \o <<"]">>
      [] val.t = "map" -> <<"{">> \o MarshalPairs(val.v) \o <<"}">>

MarshalItems(items) ==
    IF items = <<>> THEN <<>>
    ELSE MarshalValue(Head(items))
         \o (IF Len(items) > 1 THEN <<",">> ELSE <<>>)
         \o MarshalItems(Tail(items))

MarshalPairs(pairs) ==
    IF pairs = <<>> THEN <<>>
    ELSE MarshalString(Head(pairs)[1]) \o <<":">> \o MarshalValue(Head(pairs)[2])
         \o (IF Len(pairs) > 1 THEN <<",">> ELSE <<>>)
         \o MarshalPairs(Tail(pairs))

\* The decoder of encoding/json for an interface{} target, by position in
\* the text: next is the position behind what was parsed.
Parsed(ok, val, next) == [ok |-> ok, val |-> val, next |-> next]

SyntaxError == Parsed(FALSE, GoNil, 0)

JSONSpace == {" ", "\t", "\n", "\r"}

RECURSIVE SkipSpace(_, _)
SkipSpace(b, i) ==
    IF i <= Len(b) /\ b[i] \in JSONSpace THEN SkipSpace(b, i + 1) ELSE i

HasPrefixAt(b, i, prefix) ==
    i + Len(prefix) - 1 <= Len(b) /\ SubSeq(b, i, i + Len(prefix) - 1) = prefix

\* string(b): the bytes as one Go string, put together half by half.
RECURSIVE Join(_)
Join(b) ==
    IF b = <<>> THEN ""
    ELSE IF Len(b) = 1 THEN b[1]
    ELSE Join(SubSeq(b, 1, Len(b) \div 2))
         \o Join(SubSeq(b, Len(b) \div 2 + 1, Len(b)))

\* The escape that starts at position i (a backslash).
Unescape(b, i) ==
    LET is(text) == HasPrefixAt(b, i + 1, Bytes(text))
    IN  CASE is("\"") -> Parsed(TRUE, "\"", i + 2)
          [] is("\\") -> Parsed(TRUE, "\\", i + 2)
          [] is("/") -> Parsed(TRUE, "/", i + 2)
          [] is("n") -> Parsed(TRUE, "\n", i + 2)
          [] is("r") -> Parsed(TRUE, "\r", i + 2)
          [] is("t") -> Parsed(TRUE, "\t", i + 2)
          [] is("u003c") -> Parsed(TRUE, "<", i + 6)
          [] is("u003e") -> Parsed(TRUE, ">", i + 6)
          [] is("u0026") -> Parsed(TRUE, "&", i + 6)
          [] OTHER -> SyntaxError

\* The first position from i on that holds a quote, a backslash or a
\* control character, or the position behind the text.
NextSpecial(b, i) ==
    LET special == {j \in i..Len(b) : b[j] \in {"\"", "\\", "\n", "\r", "\t"}}
    IN  IF special = {} THEN Len(b) + 1
        ELSE CHOOSE j \in special : \A k \in special : j <= k

\* The rest of a string literal from position i on; acc is the text so far.
RECURSIVE ScanString(_, _, _)
ScanString(b, i, acc) ==
    LET j == NextSpecial(b, i)
        text == acc \o Join(SubSeq(b, i, j - 1))
    IN  IF j > Len(b) \/ b[j] \in {"\n", "\r", "\t"} THEN SyntaxError
        ELSE IF b[j] = "\"" THEN Parsed(TRUE, GoString(text), j + 1)
        ELSE IF Unescape(b, j).ok
           THEN ScanString(b, Unescape(b, j).next, text \o Unescape(b, j).val)
        ELSE SyntaxError

NumberBytes == Range(Digits) \cup {"-", "+", ".", "e", "E"}

RECURSIVE NumberEnd(_, _)
NumberEnd(b, i) ==
    IF i <= Len(b) /\ b[i] \in NumberBytes THEN NumberEnd(b, i + 1) ELSE i

\* A number literal becomes a float64.
ScanNumber(b, i) ==
    LET j == NumberEnd(b, i)
        text == SubSeq(b, i, j - 1)
        digits == IF text[1] = "-" THEN Tail(text) ELSE text
    IN  IF digits = <<>> \/ digits[1] \notin Range(Digits)
           \/ Join(text) \in OutOfRangeLiterals
           THEN SyntaxError
           ELSE Parsed(TRUE, GoFloat(Float64Of(Join(text))), j)

RECURSIVE ParseValue(_, _)
RECURSIVE ParseItems(_, _, _)
RECURSIVE ParsePairs(_, _, _)

ParseValue(b, at) ==
    LET i == SkipSpace(b, at)
    IN  IF i > Len(b) THEN SyntaxError
        ELSE CASE b[i] = "{" -> ParsePairs(b, i + 1, <<>>)
               [] b[i] = "[" -> ParseItems(b, i + 1, <<>>)
               [] b[i] = "\"" -> ScanString(b, i + 1, "")
               [] HasPrefixAt(b, i, Bytes("null")) -> Parsed(TRUE, GoNil, i + 4)
               [] HasPrefixAt(b, i, Bytes("true")) ->
                      Parsed(TRUE, GoBool(TRUE), i + 4)
               [] HasPrefixAt(b, i, Bytes("false")) ->
                      Parsed(TRUE, GoBool(FALSE), i + 5)
               [] b[i] \in NumberBytes -> ScanNumber(b, i)
               [] OTHER -> SyntaxError

\* The items of an array from position at on; acc holds those parsed.
ParseItems(b, at, acc) ==
    LET i == SkipSpace(b, at)
        item == ParseValue(b, i)
        j == SkipSpace(b, item.next)
    IN  IF i > Len(b) THEN SyntaxError
        ELSE IF b[i] = "]" /\ acc = <<>> THEN Parsed(TRUE, GoSlice(acc), i + 1)
        ELSE IF ~item.ok \/ j > Len(b) THEN SyntaxError
        ELSE IF b[j] = "," THEN ParseItems(b, j + 1, Append(acc, item.val))
        ELSE IF b[j] = "]"
           THEN Parsed(TRUE, GoSlice(Append(acc, item.val)), j + 1)
        ELSE SyntaxError

\* The members of an object from position at on.
ParsePairs(b, at, acc) ==
    LET i == SkipSpace(b, at)
        key == ScanString(b, i + 1, "")
        colon == SkipSpace(b, key.next)
        member == ParseValue(b, colon + 1)
        j == SkipSpace(b, member.next)
    IN  IF i > Len(b) THEN SyntaxError
        ELSE IF b[i] = "}" /\ acc = <<>> THEN Parsed(TRUE, GoMap(acc), i + 1)
        ELSE IF b[i] # "\"" \/ ~key.ok \/ colon > Len(b) THEN SyntaxError
        ELSE IF b[colon] # ":" \/ ~member.ok \/ j > Len(b) THEN SyntaxError
        ELSE IF b[j] = ","
           THEN ParsePairs(b, j + 1, Append(acc, <<key.val.v, member.val>>))
        ELSE IF b[j] = "}"
           THEN Parsed(TRUE, GoMap(Append(acc, <<key.val.v, member.val>>)), j + 1)
        ELSE SyntaxError

\* json.Unmarshal(text, &v) with v an interface{}: one value, then nothing
\* but white space.
UnmarshalValue(text) ==
    LET p == ParseValue(text, 1)
    IN  IF p.ok /\ SkipSpace(text, p.next) = Len(text) + 1
           THEN [ok |-> TRUE, val |-> p.val]
           ELSE [ok |-> FALSE, val |-> GoNil]

\* ---------------------------------------------------- responses in bytes
\* One entry of the catalog as tools/list returns it: a toolDefinition
\* struct, whose description and input schema are left empty here.
ToolDefinitionValue(name) ==
    GoMap(<<<<"name", GoString(name)>>, <<"description", GoString("")>>,
            <<"inputSchema", GoMap(<<>>)>>>>)

\* The content element of a tool result.
TextContent(text) ==
    GoSlice(<<GoMap(<<<<"text", GoString(text)>>, <<"type", GoString("text")>>>>)>>)

\* The Go value Serve holds in result for each kind of Result.
ResultValue(res) ==
    CASE res.k = "nil" -> GoNil
      [] res.k = "empty" -> GoMap(<<>>)
      [] res.k = "initialize" ->
             GoMap(<<<<"capabilities", GoMap(<<<<"tools", GoMap(<<>>)>>>>)>>,
                     <<"protocolVersion", GoString(res.info[1])>>,
                     <<"serverInfo",
                       GoMap(<<<<"name", GoString(res.info[2])>>,
                               <<"version", GoString(res.info[3])>>>>)>>>>)
      [] res.k = "tools" ->
             GoMap(<<<<"tools",
                       GoSlice([i \in DOMAIN res.info |->
                                   ToolDefinitionValue(res.info[i])])>>>>)
      [] res.k = "tool" /\ res.isError ->
             GoMap(<<<<"content", TextContent(res.text)>>,
                     <<"isError", GoBool(TRUE)>>>>)
      [] res.k = "tool" /\ ~res.isError ->
             GoMap(<<<<"content", TextContent(res.text)>>,
                     <<"structuredContent",
                       UnmarshalValue(Bytes(res.structured)).val>>>>)

\* json.Marshal of a *jsonRPCError that is not nil.
MarshalErrorText(e) ==
    Bytes("{\"code\":") \o MarshalInt(e.Code)
    \o Bytes(",\"message\":") \o MarshalString(e.Message)
    \o (IF e.Data.t = "nil" THEN <<>>
        ELSE Bytes(",\"data\":") \o MarshalValue(e.Data))
    \o <<"}">>

\* json.Marshal(response) as bytes: the members in the order of the struct,
\* those tagged omitempty left out when nil.
MarshalResponseText(resp) ==
    Bytes("{\"jsonrpc\":") \o MarshalString(resp.JSONRPC)
    \o (IF resp.ID.t = "nil" THEN <<>>
        ELSE Bytes(",\"id\":") \o MarshalValue(resp.ID))
    \o (IF resp.Result.k = "nil" THEN <<>>
        ELSE Bytes(",\"result\":") \o MarshalValue(ResultValue(resp.Result)))
    \o (IF resp.Error.isNil THEN <<>>
        ELSE Bytes(",\"error\":") \o MarshalErrorText(resp.Error))
    \o <<"}">>

\* The value of a member of a decoded object (the last one of that name), or
\* nil when there is none.
RECURSIVE Member(_, _)
Member(pairs, key) ==
    IF pairs = <<>> THEN GoNil
    ELSE IF pairs[Len(pairs)][1] = key THEN pairs[Len(pairs)][2]
    ELSE Member(SubSeq(pairs, 1, Len(pairs) - 1), key)

\* Decoding a member into a field of Go type string or int.
StringField(val) ==
    CASE val.t = "nil" -> [ok |-> TRUE, val |-> ""]
      [] val.t = "string" -> [ok |-> TRUE, val |-> val.v]
      [] OTHER -> [ok |-> FALSE, val |-> ""]

IntField(val) ==
    CASE val.t = "nil" -> [ok |-> TRUE, val |-> 0]
      [] val.t = "float64" -> [ok |-> Atoi(Bytes(val.v)).ok,
                               val |-> Atoi(Bytes(val.v)).n]
      [] OTHER -> [ok |-> FALSE, val |-> 0]

\* Decoding the "error" member into a *jsonRPCError.
UnmarshalError(val) ==
    CASE val.t = "nil" -> [ok |-> TRUE, val |-> NilError]
      [] val.t = "map" ->
             LET code == IntField(Member(val.v, "code"))
                 message == StringField(Member(val.v, "message"))
             IN  [ok |-> code.ok /\ message.ok,
                  val |-> [isNil |-> FALSE, Code |-> code.val,
                           Message |-> message.val,
                           Data |-> Member(val.v, "data")]]
      [] OTHER -> [ok |-> FALSE, val |-> NilError]

\* json.Unmarshal(text, &resp) with resp a jsonRPCResponse; Result holds the
\* decoded Go value.
UnmarshalResponse(text) ==
    LET v == UnmarshalValue(text)
        pairs == v.val.v
        jsonrpc == StringField(Member(pairs, "jsonrpc"))
        e == UnmarshalError(Member(pairs, "error"))
    IN  IF v.ok /\ v.val.t = "map" /\ jsonrpc.ok /\ e.ok
           THEN [ok |-> TRUE,
                 resp |-> [JSONRPC |-> jsonrpc.val, ID |-> Member(pairs, "id"),
                           Result |-> Member(pairs, "result"), Error |-> e.val]]
           ELSE [ok |-> FALSE,
                 resp |-> [JSONRPC |-> "", ID |-> GoNil, Result |-> GoNil,
                           Error |-> NilError]]

\* --------------------------------------------------------- input streams
\* Number of messages a client writes to standard input before it stops.
MaxMsgs == 2

\* JSON texts a client sends, and what each is as a JSON value.  Everything
\* else handed to json.Unmarshal here is a cut or garbled text, not JSON.
PingText == Bytes("{\"id\":1,\"method\":\"ping\"}")
NotifyText == Bytes("{\"method\":\"ping\"}")
InitializedText == Bytes("{\"id\":2,\"method\":\"initialized\"}")
BurnText ==
    Bytes("{\"id\":3,\"method\":\"tools/call\",\"params\":{\"name\":\"enzan.burn\"}}")
SpreadText == Bytes("{\"id\":1,\r\n \"method\":\"ping\"}\n")
GarbledText == Bytes("{nope")
ArrayText == Bytes("[1]")
UnknownText == Bytes("{\"id\":4,\"method\":\"nope/method\"}")
BadCallText == Bytes("{\"id\":5,\"method\":\"tools/call\",\"params\":[]}")

ParseJSON(text) ==
    CASE text \in {PingText, SpreadText} ->
             Payload("object", Absent, JNum("1"), JStr("ping"), ParamsAbsent)
      [] text = NotifyText ->
             Payload("object", Absent, Absent, JStr("ping"), ParamsAbsent)
      [] text = InitializedText ->
             Payload("object", Absent, JNum("2"), JStr("initialized"),
                     ParamsAbsent)
      [] text = BurnText ->
             Payload("object", Absent, JNum("3"), JStr("tools/call"),
                     Params("object", JStr("enzan.burn"), "absent", NoArgs))
      [] text = ArrayText ->
             Payload("array", Absent, Absent, Absent, ParamsAbsent)
      [] text = UnknownText ->
             Payload("object", Absent, JNum("4"), JStr("nope/method"),
                     ParamsAbsent)
      [] text = BadCallText ->
             Payload("object", Absent, JNum("5"), JStr("tools/call"),
                     ParamsArray)
      [] OTHER -> Payload("invalid", Absent, Absent, Absent, ParamsAbsent)

\* One piece of the input stream as the client wrote it: the bytes on the
\* wire, and for a message its header block (head, empty for a bare line)
\* and its payload.
Piece(kind, head, payload, wire) ==
    [kind |-> kind, head |-> head, payload |-> payload, wire |-> wire]

\* A message as one JSON line, ended by eol.
LineMessage(text, eol) == Piece("line", <<>>, text, text \o Bytes(eol))

\* A message as a header block that declares the length of its payload.
\* before and after are further header lines, name and gap spell the
\* Content-Length line, eol ends every line.
FramedMessage(before, name, gap, after, eol, text) ==
    LET head == Bytes(before) \o Bytes(name) \o Bytes(":") \o Bytes(gap)
                \o Itoa(Len(text)) \o Bytes(eol) \o Bytes(after) \o Bytes(eol)
    IN  Piece("framed", head, text, head \o text)

\* A JSON line with white space around the text.
PaddedLine(lead, text, trail) ==
    Piece("line", <<>>, text, Bytes(lead) \o text \o Bytes(trail))

LineMessages ==
    {LineMessage(PingText, "\n"), LineMessage(NotifyText, "\r\n"),
     LineMessage(InitializedText, "\n"), LineMessage(BurnText, "\n"),
     LineMessage(GarbledText, "\n"), PaddedLine(" \t", PingText, " \r\n"),
     LineMessage(UnknownText, "\n"), LineMessage(BadCallText, "\r\n")}

FramedMessages ==
    {FramedMessage("", "Content-Length", " ", "", "\r\n", PingText),
     FramedMessage("", "content-length", "", "", "\n", SpreadText),
     FramedMessage("Content-Type: application/json\r\n", "CONTENT-LENGTH",
                   "  ", "", "\r\n", NotifyText),
     FramedMessage("", "Content-length", " ", "X-Trace: a:b\r\n", "\r\n",
                   ArrayText)}

WellFormedMessages == LineMessages \cup FramedMessages

\* A message of which only the first c bytes arrive.
Cut(piece, c) ==
    Piece("cut", piece.head, piece.payload, SubSeq(piece.wire, 1, c))

CutMessages ==
    UNION {{Cut(m, c) : c \in 1..(Len(m.wire) - 1)} : m \in WellFormedMessages}

\* Header blocks without a usable Content-Length.
BadHeader(block) == Piece("bad", Bytes(block), <<>>, Bytes(block))

MissingLength ==
    {BadHeader("Content-Type: application/json\r\n\r\n"),
     BadHeader("Content-Length 24\r\n\r\n")}

NonNumericLength ==
    {BadHeader("Content-Length: nope\r\n\r\n"),
     BadHeader("Content-Length:\r\n\r\n"),
     BadHeader("X-Trace: 1\ncontent-length: 2 4\n\n")}

NotPositiveLength ==
    {BadHeader("Content-Length: 0\r\n\r\n"),
     BadHeader("Content-Length: -24\r\n\r\n")}

BadHeaders == MissingLength \cup NonNumericLength \cup NotPositiveLength

\* Lines of white space only, and white space that no newline ends.
BlankLines ==
    {Piece("blank", <<>>, <<>>, Bytes(w)) : w \in {"\n", "\r\n", " \t\n"}}

TrailingSpace ==
    {Piece("space", <<>>, <<>>, Bytes(w)) : w \in {" ", "\r", "\t "}}

\* How a stream ends after up to MaxMsgs - 1 well-formed messages: with
\* nothing, with one more message, with part of one, with white space, or
\* with a blank line or a bad header block, alone or before a message.
Tails ==
    {<<>>}
    \cup {<<m>> : m \in WellFormedMessages \cup CutMessages \cup TrailingSpace}
    \cup {<<b>> : b \in BadHeaders \cup BlankLines}
    \cup {<<b, LineMessage(PingText, "\n")>> : b \in BadHeaders \cup BlankLines}

RECURSIVE SeqsUpTo(_, _)
SeqsUpTo(S, n) ==
    IF n = 0 THEN {<<>>}
       ELSE {<<>>} \cup {<<x>> \o s : x \in S, s \in SeqsUpTo(S, n - 1)}

StreamsTried ==
    {ms \o t : ms \in SeqsUpTo(WellFormedMessages, MaxMsgs - 1), t \in Tails}

RECURSIVE Wire(_)
Wire(pieces) ==
    IF pieces = <<>> THEN <<>> ELSE Head(pieces).wire \o Wire(Tail(pieces))

\* ------------------------------------------------------------------ state
VARIABLES
    client,     \* Server.client: set by NewServer, nil in a bare &Server{}
    apiKey,     \* client.apiKey, fixed at construction
    pc,         \* where Serve is: read, decode, dispatch, call, respond, done
    payload,    \* the frame readMessage returned to this iteration
    req,        \* the decoded jsonRPCRequest of this iteration
    result,     \* Serve's local result
    rpcErr,     \* Serve's local rpcErr
    pending,    \* the executor call handleToolCall is blocked in
    execRet,    \* handleToolCall's locals (data, err) once the call returned
    wbuf,       \* bytes held by the bufio.Writer, not yet flushed
    out,        \* frames that reached standard output, in order
    retval,     \* what Serve returned: running, nil, read error, write error
    nread,      \* frames readMessage has returned so far
    ncalls,     \* executor calls made in this iteration
    done,       \* summary of the last finished iteration
    reader,     \* Server.reader: the input not yet consumed, and its end
    sent,       \* the pieces the client wrote to standard input
    reads       \* what each readMessage call so far returned

vars ==
    <<client, apiKey, pc, payload, req, result, rpcErr, pending, execRet,
      wbuf, out, retval, nread, ncalls, done, reader, sent, reads>>

NoPayload == Payload("none", Absent, Absent, Absent, ParamsAbsent)

\* The summary kept of a finished iteration: which frame it was, the id and
\* method it carried, how it ended and how many executor calls it made.
Summary(frame, id, method, how, calls) ==
    [frame |-> frame, id |-> id, method |-> method, how |-> how,
     calls |-> calls]

NoSummary == Summary(0, Absent, "", "none", 0)

\* NewServer, and Serve about to read its first frame.
Init ==
    /\ client = "set"
    /\ apiKey \in {"", "key"}
    /\ pc = "read"
    /\ payload = NoPayload
    /\ req = ZeroRequest
    /\ result = NilResult
    /\ rpcErr = NilError
    /\ pending = NoCall
    /\ execRet = NoOutcome
    /\ wbuf = <<>>
    /\ out = <<>>
    /\ retval = "running"
    /\ nread = 0
    /\ ncalls = 0
    /\ done = NoSummary
    /\ reader = Reader(<<>>, EOF)
    /\ sent = <<>>
    /\ reads = <<>>

\* Variant of NextIteration: the locals are declared outside the loop and
\* keep their values into the next iteration.
NextIterationKeepsLocals(r, how) ==
    /\ pc' = "read"
    /\ payload' = NoPayload
    /\ done' = Summary(nread, r.ID, r.Method, how, ncalls)
    /\ UNCHANGED <<req, result, rpcErr, pending, execRet, ncalls>>

\* `continue`, or the end of the loop body: the iteration's locals die.
NextIteration(r, how) ==
    /\ pc' = "read"
    /\ payload' = NoPayload
    /\ req' = ZeroRequest
    /\ result' = NilResult
    /\ rpcErr' = NilError
    /\ pending' = NoCall
    /\ execRet' = NoOutcome
    /\ ncalls' = 0
    /\ done' = Summary(nread, r.ID, r.Method, how, ncalls)

\* readMessage returns a payload.
ReadMessage ==
    /\ pc = "read"
    /\ nread < MaxFrames
    /\ \E p \in PayloadsTried : payload' = p
    /\ nread' = nread + 1
    /\ pc' = "decode"
    /\ UNCHANGED <<client, apiKey, req, result, rpcErr, pending, execRet, wbuf,
                   out, retval, ncalls, done>>
    /\ UNCHANGED <<reader, sent, reads>>

\* readMessage returns io.EOF: Serve returns nil.
ReadEOF ==
    /\ pc = "read"
    /\ pc' = "done"
    /\ retval' = "nil"
    /\ UNCHANGED <<client, apiKey, payload, req, result, rpcErr, pending,
                   execRet, wbuf, out, nread, ncalls, done>>
    /\ UNCHANGED <<reader, sent, reads>>

\* readMessage returns any other error: Serve returns it wrapped.
ReadError ==
    /\ pc = "read"
    /\ pc' = "done"
    /\ retval' = "failed to read message"
    /\ UNCHANGED <<client, apiKey, payload, req, result, rpcErr, pending,
                   execRet, wbuf, out, nread, ncalls, done>>
    /\ UNCHANGED <<reader, sent, reads>>

\* Variant of Decode: a payload that does not decode ends Serve with the
\* decoding error.
DecodeReturnsOnInvalid ==
    /\ pc = "decode"
    /\ LET u == UnmarshalRequest(payload)
       IN  IF ~u.ok
              THEN /\ pc' = "done"
                   /\ retval' = "failed to decode message"
                   /\ UNCHANGED <<payload, req, result, rpcErr, pending,
                                  execRet, ncalls, done>>
           ELSE IF u.req.Method \in {"notifications/initialized", "initialized"}
              THEN NextIteration(u.req, "acknowledged") /\ UNCHANGED retval
           ELSE /\ req' = u.req
                /\ pc' = "dispatch"
                /\ UNCHANGED <<payload, result, rpcErr, pending, execRet, ncalls,
                               done, retval>>
    /\ UNCHANGED <<client, apiKey, wbuf, out, nread>>
    /\ UNCHANGED <<reader, sent, reads>>

\* Variant of Decode: an initialized notification is dispatched like any
\* other method.
DecodeDispatchesInitialized ==
    /\ pc = "decode"
    /\ LET u == UnmarshalRequest(payload)
       IN  IF ~u.ok
              THEN NextIteration(ZeroRequest, "dropped")
           ELSE /\ req' = u.req
                /\ pc' = "dispatch"
                /\ UNCHANGED <<payload, result, rpcErr, pending, execRet, ncalls,
                               done>>
    /\ UNCHANGED <<client, apiKey, wbuf, out, retval, nread>>
    /\ UNCHANGED <<reader, sent, reads>>

\* json.Unmarshal(payload, &req); an undecodable payload is dropped, and so
\* is an initialized notification.
Decode ==
    /\ pc = "decode"
    /\ LET u == UnmarshalRequest(payload)
       IN  IF ~u.ok
              THEN NextIteration(ZeroRequest, "dropped")
           ELSE IF u.req.Method \in {"notifications/initialized", "initialized"}
              THEN NextIteration(u.req, "acknowledged")
           ELSE /\ req' = u.req
                /\ pc' = "dispatch"
                /\ UNCHANGED <<payload, result, rpcErr, pending, execRet, ncalls,
                               done>>
    /\ UNCHANGED <<client, apiKey, wbuf, out, retval, nread>>
    /\ UNCHANGED <<reader, sent, reads>>

\* The fixed document returned by initialize.
InitializeResult ==
    Result("initialize", FALSE, "", "", <<protocol, serverName, serverVersion>>)

\* Variant of MethodNotFound: the invalid-params code is used.
MethodNotFoundWrongCode(method) ==
    RPCError(-32602, "method not found", GoString(method))

\* The error of the default branch of Serve's switch.
MethodNotFound(method) ==
    RPCError(-32601, "method not found", GoString(method))

\* Variant of CallHandleToolCall: a request without id is not dispatched.
CallHandleToolCallIfAnswered(raw) ==
    LET h == HandleToolCall(raw)
    IN  IF h.ret \/ LenID(req) = 0
           THEN /\ result' = h.result
                /\ rpcErr' = h.rpcErr
                /\ pc' = "respond"
                /\ UNCHANGED <<pending, ncalls>>
           ELSE /\ pending' = h.call
                /\ ncalls' = ncalls + 1
                /\ pc' = "call"
                /\ UNCHANGED <<result, rpcErr>>

\* s.handleToolCall(raw): it returns at once, or blocks in the executor.
CallHandleToolCall(raw) ==
    LET h == HandleToolCall(raw)
    IN  IF h.ret
           THEN /\ result' = h.result
                /\ rpcErr' = h.rpcErr
                /\ pc' = "respond"
                /\ UNCHANGED <<pending, ncalls>>
           ELSE /\ pending' = h.call
                /\ ncalls' = ncalls + 1
                /\ pc' = "call"
                /\ UNCHANGED <<result, rpcErr>>

\* Variant of Dispatch: initialize rejects params that are not an object.
DispatchInitializeChecksParams ==
    /\ pc = "dispatch"
    /\ LET set(res, e) ==
               /\ result' = res
               /\ rpcErr' = e
               /\ pc' = "respond"
               /\ UNCHANGED <<pending, ncalls>>
       IN  CASE req.Method = "initialize" ->
                    IF req.Params.p \in {"absent", "object"}
                       THEN set(InitializeResult, NilError)
                       ELSE set(NilResult,
                                RPCError(-32602, "invalid params", GoNil))
             [] req.Method = "ping" ->
                    set(Result("empty", FALSE, "", "", <<>>), NilError)
             [] req.Method = "tools/list" ->
                    set(Result("tools", FALSE, "", "", toolDefinitions), NilError)
             [] req.Method = "tools/call" -> CallHandleToolCall(req.Params)
             [] OTHER -> set(NilResult, MethodNotFound(req.Method))
    /\ UNCHANGED <<client, apiKey, payload, req, execRet, wbuf, out, retval,
                   nread, done>>
    /\ UNCHANGED <<reader, sent, reads>>

\* The switch of Serve over req.Method.  A tools/call that passes validation
\* blocks in the executor; every other branch sets result or rpcErr.
Dispatch ==
    /\ pc = "dispatch"
    /\ LET set(res, e) ==
               /\ result' = res
               /\ rpcErr' = e
               /\ pc' = "respond"
               /\ UNCHANGED <<pending, ncalls>>
       IN  CASE req.Method = "initialize" -> set(InitializeResult, NilError)
             [] req.Method = "ping" ->
                    set(Result("empty", FALSE, "", "", <<>>), NilError)
             [] req.Method = "tools/list" ->
                    set(Result("tools", FALSE, "", "", toolDefinitions), NilError)
             [] req.Method = "tools/call" -> CallHandleToolCall(req.Params)
             [] OTHER -> set(NilResult, MethodNotFound(req.Method))
    /\ UNCHANGED <<client, apiKey, payload, req, execRet, wbuf, out, retval,
                   nread, done>>
    /\ UNCHANGED <<reader, sent, reads>>

\* Variant of WrapOutcome: an executor error becomes an RPC-level error.
WrapOutcomeAsRPCError(o) ==
    IF o.ok
       THEN [result |-> ToolSuccess(o.data), rpcErr |-> NilError]
       ELSE [result |-> NilResult,
             rpcErr |-> RPCError(-32603, "internal error", GoString(o.text))]

\* The rest of handleToolCall once the executor has returned (data, err).
WrapOutcome(o) ==
    IF o.ok
       THEN [result |-> ToolSuccess(o.data), rpcErr |-> NilError]
       ELSE [result |-> ToolFailure(o.text), rpcErr |-> NilError]

\* Variant of ExecutorReturn: GET calls carry no deadline and the backend
\* never answers them.
ExecutorReturnNoDeadline ==
    /\ pc = "call"
    /\ client = "set"
    /\ pending.verb # "GET"
    /\ \E o \in ExecutorOutcomes(apiKey) :
          /\ execRet' = o
          /\ result' = WrapOutcome(o).result
          /\ rpcErr' = WrapOutcome(o).rpcErr
    /\ pending' = NoCall
    /\ pc' = "respond"
    /\ UNCHANGED <<client, apiKey, payload, req, wbuf, out, retval, nread,
                   ncalls, done>>
    /\ UNCHANGED <<reader, sent, reads>>

\* client.call returns, or its 60 s deadline cuts it off; handleToolCall
\* wraps what it got and returns.
ExecutorReturn ==
    /\ pc = "call"
    /\ client = "set"
    /\ \E o \in ExecutorOutcomes(apiKey) :
          /\ execRet' = o
          /\ result' = WrapOutcome(o).result
          /\ rpcErr' = WrapOutcome(o).rpcErr
    /\ pending' = NoCall
    /\ pc' = "respond"
    /\ UNCHANGED <<client, apiKey, payload, req, wbuf, out, retval, nread,
                   ncalls, done>>
    /\ UNCHANGED <<reader, sent, reads>>

\* The id Serve echoes: the decoded value, or the raw text as a string when
\* the value does not decode.
ResponseID(r) ==
    LET u == UnmarshalAny(r.ID)
    IN  IF u.ok THEN u.val ELSE GoString(r.ID.v)

\* Variant of Flush: the buffer is left as it is.
FlushNothing(buffered, written) == [wbuf |-> buffered, out |-> written]

\* writer.Flush(): everything buffered reaches standard output.
Flush(buffered, written) == [wbuf |-> <<>>, out |-> written \o buffered]

\* writeMessage: header and body go to the buffered writer, which is then
\* flushed.  frame is the number of the frame being answered.
writeMessage(buffered, written, response, frame) ==
    LET body == MarshalResponse(response)
    IN  Flush(Append(buffered,
                     [header |-> "Content-Length", body |-> body,
                      frame |-> frame]),
              written)

\* The tail of the loop body: no response without an id, otherwise build the
\* response and write it.
Respond ==
    /\ pc = "respond"
    /\ IF LenID(req) = 0
          THEN /\ NextIteration(req, "suppressed")
               /\ UNCHANGED <<wbuf, out>>
          ELSE LET w == writeMessage(wbuf, out,
                                     Response(ResponseID(req), result, rpcErr),
                                     nread)
               IN  /\ wbuf' = w.wbuf
                   /\ out' = w.out
                   /\ NextIteration(req, "answered")
    /\ UNCHANGED <<client, apiKey, retval, nread>>
    /\ UNCHANGED <<reader, sent, reads>>

\* writeMessage fails (the output stream is closed): Serve returns the error.
WriteError ==
    /\ pc = "respond"
    /\ LenID(req) # 0
    /\ pc' = "done"
    /\ retval' = "failed to write response"
    /\ UNCHANGED <<client, apiKey, payload, req, result, rpcErr, pending,
                   execRet, wbuf, out, nread, ncalls, done>>
    /\ UNCHANGED <<reader, sent, reads>>

\* Serve with an output stream that accepts every write.
Next ==
    \/ ReadMessage
    \/ ReadEOF
    \/ ReadError
    \/ Decode
    \/ Dispatch
    \/ ExecutorReturn
    \/ Respond

Spec == Init /\ [][Next]_vars

\* Serve as a running process, over a stream of up to MaxLive frames drawn
\* from one payload of each kind the loop treats differently.
MaxLive == 2

PayloadsLive ==
    {Message(JNum("7"), JStr("ping"), ParamsAbsent),
     Message(Absent, JStr("ping"), ParamsAbsent),
     Message(JNull, JStr("ping"), ParamsAbsent),
     Message(JNum("7"), JStr("initialize"), ParamsEmptyObject),
     Message(JNum("7"), JStr("initialized"), ParamsAbsent),
     Message(JNum("7"), JStr("tools/list"), ParamsAbsent),
     Message(JNum("7"), JStr("nope/method"), ParamsAbsent),
     Message(JNum("7"), JStr("tools/call"), ParamsArray),
     Message(JNum("7"), JStr("tools/call"),
             Params("object", JStr("nope.tool"), "object", NoArgs)),
     Message(JNum("7"), JStr("tools/call"),
             Params("object", JStr("akuma.explain"), "object", NoArgs)),
     Message(JNum("7"), JStr("tools/call"),
             Params("object", JStr("akuma.explain"), "object", [sql |-> "str"])),
     Message(JNum("7"), JStr("tools/call"),
             Params("object", JStr("enzan.burn"), "object", NoArgs)),
     Message(Absent, JStr("tools/call"),
             Params("object", JStr("enzan.burn"), "object", NoArgs)),
     Payload("invalid", Absent, Absent, Absent, ParamsAbsent)}

ReadMessageLive ==
    /\ pc = "read"
    /\ nread < MaxLive
    /\ \E p \in PayloadsLive : payload' = p
    /\ nread' = nread + 1
    /\ pc' = "decode"
    /\ UNCHANGED <<client, apiKey, req, result, rpcErr, pending, execRet, wbuf,
                   out, retval, ncalls, done>>
    /\ UNCHANGED <<reader, sent, reads>>

NextLive ==
    \/ ReadMessageLive
    \/ ReadEOF
    \/ ReadError
    \/ Decode
    \/ Dispatch
    \/ ExecutorReturn
    \/ Respond

\* The goroutine executing the loop keeps taking its next step, a read from
\* standard input returns (with a frame, the end of the stream or an
\* error), and a call to the executor returns because its context and the
\* http.Client both carry a 60 s deadline.
Fairness ==
    /\ WF_vars(ReadMessageLive \/ ReadEOF \/ ReadError)
    /\ WF_vars(Decode)
    /\ WF_vars(Dispatch)
    /\ WF_vars(ExecutorReturn)
    /\ WF_vars(Respond)

SpecLive == Init /\ [][NextLive]_vars /\ Fairness

\* Serve with an output stream that may fail.
NextIO == Next \/ WriteError

SpecIO == Init /\ [][NextIO]_vars

\* handleToolCall called on its own, as the package's tests do, on a Server
\* built by NewServer or on a bare &Server{} whose client is nil.  Here pc is
\* "tool" before the call and "respond" once handleToolCall has returned.
InitHandler ==
    /\ client \in {"nil", "set"}
    /\ apiKey \in (IF client = "nil" THEN {""} ELSE {"", "key"})
    /\ pc = "tool"
    /\ payload = NoPayload
    /\ \E p \in ToolCallParams \cup OddParams :
          req = Request(Absent, "tools/call", p)
    /\ result = NilResult
    /\ rpcErr = NilError
    /\ pending = NoCall
    /\ execRet = NoOutcome
    /\ wbuf = <<>>
    /\ out = <<>>
    /\ retval = "running"
    /\ nread = 0
    /\ ncalls = 0
    /\ done = NoSummary
    /\ reader = Reader(<<>>, EOF)
    /\ sent = <<>>
    /\ reads = <<>>

InvokeHandleToolCall ==
    /\ pc = "tool"
    /\ CallHandleToolCall(req.Params)
    /\ UNCHANGED <<client, apiKey, payload, req, execRet, wbuf, out, retval,
                   nread, done>>
    /\ UNCHANGED <<reader, sent, reads>>

\* s.client.call on a nil client dereferences nil: the goroutine panics.
ExecutorPanic ==
    /\ pc = "call"
    /\ client = "nil"
    /\ pc' = "panic"
    /\ UNCHANGED <<client, apiKey, payload, req, result, rpcErr, pending,
                   execRet, wbuf, out, retval, nread, ncalls, done>>
    /\ UNCHANGED <<reader, sent, reads>>

NextHandler ==
    \/ InvokeHandleToolCall
    \/ ExecutorReturn
    \/ ExecutorPanic

SpecHandler == InitHandler /\ [][NextHandler]_vars

\* Serve reading a byte stream: NewServer over a standard input that holds
\* what the client wrote and ends with io.EOF or with a read error.
InitStream ==
    /\ client = "set"
    /\ apiKey = "key"
    /\ pc = "read"
    /\ payload = NoPayload
    /\ req = ZeroRequest
    /\ result = NilResult
    /\ rpcErr = NilError
    /\ pending = NoCall
    /\ execRet = NoOutcome
    /\ wbuf = <<>>
    /\ out = <<>>
    /\ retval = "running"
    /\ nread = 0
    /\ ncalls = 0
    /\ done = NoSummary
    /\ sent \in StreamsTried
    /\ \E end \in {EOF, ErrInput} : reader = Reader(Wire(sent), end)
    /\ reads = <<>>

\* The head of Serve's loop: readMessage(s.reader).  io.EOF, wrapped or
\* not, ends Serve with nil; any other error ends it with that error; a
\* payload goes on to json.Unmarshal.
ReadFrame ==
    /\ pc = "read"
    /\ LET m == readMessage(reader)
       IN  /\ reader' = m.reader
           /\ reads' = Append(reads, [payload |-> m.payload, err |-> m.err])
           /\ IF m.err = NoError
                 THEN /\ payload' = ParseJSON(m.payload)
                      /\ nread' = nread + 1
                      /\ pc' = "decode"
                      /\ UNCHANGED retval
              ELSE /\ pc' = "done"
                   /\ retval' = IF m.err.isEOF THEN "nil"
                                               ELSE "failed to read message"
                   /\ UNCHANGED <<payload, nread>>
    /\ UNCHANGED <<client, apiKey, req, result, rpcErr, pending, execRet, wbuf,
                   out, ncalls, done, sent>>

NextStream ==
    \/ ReadFrame
    \/ Decode
    \/ Dispatch
    \/ ExecutorReturn
    \/ Respond
    \/ WriteError

SpecStream == InitStream /\ [][NextStream]_vars

\* Variant of writeMessageBytes: the frame is left in the writer's buffer.
writeMessageBytesUnflushed(buffered, written, response) ==
    LET body == MarshalResponseText(response)
    IN  [wbuf |-> buffered \o Bytes("Content-Length: ") \o Itoa(Len(body))
                  \o Bytes("\r\n\r\n") \o body,
         out |-> written]

\* writeMessage in bytes: the header line with len(payload), the blank
\* line and the payload go to the buffered writer, which is then flushed.
writeMessageBytes(buffered, written, response) ==
    LET body == MarshalResponseText(response)
    IN  Flush(buffered \o Bytes("Content-Length: ") \o Itoa(Len(body))
              \o Bytes("\r\n\r\n") \o body,
              written)

\* The (result, rpcErr) pairs Serve can hold when it builds a response:
\* those of the switch, of handleToolCall returning at once, and of
\* handleToolCall after the executor has returned.
OutcomesBuilt ==
    {<<InitializeResult, NilError>>,
     <<Result("empty", FALSE, "", "", <<>>), NilError>>,
     <<Result("tools", FALSE, "", "", toolDefinitions), NilError>>}
    \cup {<<NilResult, MethodNotFound(m)>> :
             m \in {"", "nope/method", "say \"hi\" <&>\\\n"}}
    \cup {<<HandleToolCall(p).result, HandleToolCall(p).rpcErr>> :
             p \in {q \in ToolCallParams \cup OddParams : HandleToolCall(q).ret}}
    \cup {<<WrapOutcome(o).result, WrapOutcome(o).rpcErr>> :
             o \in ExecutorOutcomes("") \cup ExecutorOutcomes("key")}

\* The tail of one iteration of Serve in bytes, with a client that reads
\* standard output back.  Here wbuf and out hold the bytes themselves, and
\* reader is the client's reader over what the server wrote.
InitCodec ==
    /\ client = "set"
    /\ apiKey = "key"
    /\ pc = "respond"
    /\ payload = NoPayload
    /\ \E i \in IdsTried \ {Absent} : req = Request(i, "", ParamsAbsent)
    /\ \E o \in OutcomesBuilt : result = o[1] /\ rpcErr = o[2]
    /\ pending = NoCall
    /\ execRet = NoOutcome
    /\ wbuf = <<>>
    /\ out = <<>>
    /\ retval = "running"
    /\ nread = 1
    /\ ncalls = 0
    /\ done = NoSummary
    /\ reader = Reader(<<>>, EOF)
    /\ sent = <<>>
    /\ reads = <<>>

\* Serve builds the response and writeMessage writes it.
WriteResponse ==
    /\ pc = "respond"
    /\ LET w == writeMessageBytes(wbuf, out,
                                  Response(ResponseID(req), result, rpcErr))
       IN  wbuf' = w.wbuf /\ out' = w.out
    /\ pc' = "written"
    /\ UNCHANGED <<client, apiKey, payload, req, result, rpcErr, pending,
                   execRet, retval, nread, ncalls, done, reader, sent, reads>>

\* The client reads one frame from what reached standard output.
ClientRead ==
    /\ pc = "written"
    /\ LET m == readMessage(Reader(out, EOF))
       IN  /\ reader' = m.reader
           /\ reads' = Append(reads, [payload |-> m.payload, err |-> m.err])
    /\ pc' = "read back"
    /\ UNCHANGED <<client, apiKey, payload, req, result, rpcErr, pending,
                   execRet, wbuf, out, retval, nread, ncalls, done, sent>>

NextCodec ==
    \/ WriteResponse
    \/ ClientRead

SpecCodec == InitCodec /\ [][NextCodec]_vars

\* ================================================================ claims
\* The frames written, buffered ones included.
Written == out \o wbuf

LastOut == out[Len(out)]

\* The last finished iteration decoded a request and reached the id check.
Handled == done.how \in {"suppressed", "answered"}

ExplicitEmptyIds == {JNull, JStr(""), JNum("0")}

\* C1: a decoded request whose id member is structurally absent causes no
\* write for that request, whatever its method: any frame written for the
\* latest frame read belongs to a finished iteration whose request had an id.
C1_NoIdNoOutput ==
    \A i \in DOMAIN Written :
        Written[i].frame = nread =>
            done.frame = nread /\ done.id.t # "absent"

\* An id-less request with an unknown method, which would otherwise yield
\* an RPC error, has been handled and nothing was written for it.
C1_Witness ==
    /\ done.how = "suppressed"
    /\ done.method = "nope/method"
    /\ done.id = Absent
    /\ \A i \in DOMAIN Written : Written[i].frame # done.frame

\* C2: requests are handled one at a time: nothing stays buffered when the
\* next frame is read, a response is written only while its own frame is the
\* latest one read, and the output lists the answered frames in order, at
\* most one response each and none for a frame not yet read.
C2_Sequential ==
    /\ [](/\ (pc = "read" => wbuf = <<>>)
          /\ \A i \in DOMAIN out : out[i].frame \in 1..nread
          /\ \A i, j \in DOMAIN out : i < j => out[i].frame < out[j].frame)
    /\ [][out' # out =>
             /\ Len(out') = Len(out) + 1
             /\ SubSeq(out', 1, Len(out)) = out
             /\ out'[Len(out')].frame = nread
             /\ nread' = nread
             /\ wbuf' = <<>>]_vars

\* Two requests were answered, one after the other, and Serve is back at
\* the read.
C2_Witness ==
    /\ pc = "read"
    /\ Len(out) = 2
    /\ out[1].frame = 1
    /\ out[2].frame = 2

\* C3: every response written carries exactly one of result and error.
C3_ExactlyOneOfResultError ==
    \A i \in DOMAIN out : out[i].body.hasResult # out[i].body.hasError

\* An RPC error and a tool-level failure have both been written.
C3_Witness ==
    /\ Len(out) = 2
    /\ out[1].body.hasError
    /\ out[2].body.hasResult
    /\ out[2].body.result.isError

\* C4: every response written contains an id member equal in value and JSON
\* type to the id of the request it answers, for every id present in the
\* request, null, "" and 0 included.
C4_IdEchoed ==
    done.how = "answered" =>
        \E i \in DOMAIN out : out[i].frame = done.frame /\ out[i].body.id = done.id

\* C5: suppression depends only on the id being structurally absent: a
\* decoded request that reaches the id check is suppressed exactly when it
\* has no id member, so one whose id is null, "" or 0 is answered.
C5_EmptyIdAnswered ==
    Handled =>
        /\ (done.how = "suppressed") <=> (done.id.t = "absent")
        /\ done.id \in ExplicitEmptyIds =>
               \E i \in DOMAIN out : out[i].frame = done.frame

\* A request with id null has been answered.
C5_Witness ==
    /\ done.how = "answered"
    /\ done.id = JNull
    /\ done.method = "initialize"
    /\ \E i \in DOMAIN out : out[i].frame = done.frame

\* C6: a request with an id and a method outside the known ones goes from
\* the switch straight to the response, which has no result and an error
\* with code -32601 and the method name as data; Serve keeps running and
\* returns to the read.
C6_MethodNotFound ==
    [][/\ (pc = "dispatch" /\ req.Method \notin KnownMethods) => pc' = "respond"
       /\ (pc = "respond" /\ LenID(req) # 0 /\ req.Method \notin KnownMethods) =>
             /\ pc' = "read"
             /\ retval' = "running"
             /\ Len(out') = Len(out) + 1
             /\ SubSeq(out', 1, Len(out)) = out
             /\ LET b == out'[Len(out')].body
                IN  /\ ~b.hasResult
                    /\ b.hasError
                    /\ b.error.code = -32601
                    /\ b.error.data = JStr(req.Method)]_vars

\* An unknown method was answered with -32601 and the next frame was read.
C6_Witness ==
    /\ pc = "decode"
    /\ nread = 2
    /\ done.how = "answered"
    /\ done.method = "nope/method"
    /\ Len(out) = 1
    /\ LastOut.body.error.code = -32601
    /\ LastOut.body.error.data = JStr("nope/method")

\* The raw params name a tool and carry an arguments object (or none).
NamesTool(raw) ==
    /\ raw.p = "object"
    /\ raw.name.t = "str"
    /\ raw.a \in {"absent", "null", "object"}

ArgumentsOf(raw) == IF raw.a = "object" THEN raw.args ELSE NoArgs

\* C7: handleToolCall with a tool name outside the registered set returns a
\* nil result and an RPC error with code -32602 whose data is that name, and
\* never reaches the executor, so it also returns on a Server without client.
C7_UnknownTool ==
    (NamesTool(req.Params) /\ req.Params.name.v \notin RegisteredTools) =>
        /\ pc \in {"tool", "respond"}
        /\ ncalls = 0
        /\ pending = NoCall
        /\ pc = "respond" =>
              /\ result = NilResult
              /\ rpcErr = RPCError(-32602, "unknown tool",
                                   GoString(req.Params.name.v))

\* handleToolCall has returned the error for nope.tool on a bare &Server{}.
C7_Witness ==
    /\ pc = "respond"
    /\ client = "nil"
    /\ req.Params.name = JStr("nope.tool")
    /\ req.Params.a = "object"
    /\ rpcErr.Code = -32602
    /\ rpcErr.Data = GoString("nope.tool")

\* The messages that name a required argument left out of args.
OmittedMessages(name, args) ==
    CASE name = "akuma.query" ->
             {m \in {"dialect is required"} : ~HasKey(args, "dialect")}
             \cup {m \in {"prompt is required"} : ~HasKey(args, "prompt")}
      [] name = "akuma.explain" ->
             {m \in {"sql is required"} : ~HasKey(args, "sql")}
      [] name = "akuma.schema" ->
             {m \in {"tables is required"} : ~HasKey(args, "tables")}
      [] name = "sozo.generate" ->
             {m \in {"records is required"} : ~HasKey(args, "records")}
             \cup {m \in {"schema or schemaName is required"} :
                      ~HasKey(args, "schema") /\ ~HasKey(args, "schemaName")}
      [] OTHER -> {}

\* The messages that name a required argument that args leaves out or, for
\* the string arguments dialect, prompt and sql, gives as a non-string or
\* blank value.
UnusableMessages(name, args) ==
    OmittedMessages(name, args)
    \cup CASE name = "akuma.query" ->
                  {m \in {"dialect is required"} : BlankString(args, "dialect")}
                  \cup {m \in {"prompt is required"} : BlankString(args, "prompt")}
           [] name = "akuma.explain" ->
                  {m \in {"sql is required"} : BlankString(args, "sql")}
           [] OTHER -> {}

\* handleToolCall returned a tool-level failure with one of the messages,
\* without an RPC error and without reaching the executor.
ToolErrorWith(messages) ==
    /\ pc \in {"tool", "respond"}
    /\ ncalls = 0
    /\ pending = NoCall
    /\ pc = "respond" =>
          /\ rpcErr = NilError
          /\ result.k = "tool"
          /\ result.isError
          /\ result.text # ""
          /\ result.text \in messages

\* C8 as stated: a tools/call to a registered tool that omits a required
\* argument returns no RPC error and a result with isError = true whose text
\* names the omitted argument, and the executor is not called.
C8_NamesOmittedArgument ==
    LET name == req.Params.name.v
        args == ArgumentsOf(req.Params)
    IN  (NamesTool(req.Params) /\ OmittedMessages(name, args) # {}) =>
            ToolErrorWith(OmittedMessages(name, args))

\* C8 amended: the text names a required argument that is omitted or, for
\* dialect, prompt and sql, not a non-blank string.
C8_NamesUnusableArgument ==
    LET name == req.Params.name.v
        args == ArgumentsOf(req.Params)
    IN  (NamesTool(req.Params) /\ OmittedMessages(name, args) # {}) =>
            ToolErrorWith(UnusableMessages(name, args))

\* akuma.query with only dialect returned "prompt is required" on a bare
\* &Server{}.
C8_Witness ==
    /\ pc = "respond"
    /\ client = "nil"
    /\ req.Params.name = JStr("akuma.query")
    /\ req.Params.a = "object"
    /\ DOMAIN req.Params.args = {"dialect"}
    /\ result.isError
    /\ result.text = "prompt is required"
    /\ rpcErr = NilError

\* C9: when the executor fails for a registered tool with valid arguments,
\* the request (if it has an id) gets a response with no error member whose
\* result has isError = true and the error text, and Serve returns to the
\* read still running.
C9_ExecutorFailure ==
    [][(pc = "respond" /\ ncalls = 1 /\ ~execRet.ok) =>
          /\ pc' = "read"
          /\ retval' = "running"
          /\ LenID(req) # 0 =>
                /\ Len(out') = Len(out) + 1
                /\ LET b == out'[Len(out')].body
                   IN  /\ ~b.hasError
                       /\ b.hasResult
                       /\ b.result.isError
                       /\ b.result.text = execRet.text]_vars

\* A call cut off by the deadline was answered with a tool-level failure
\* and Serve is back at the read.
C9_Witness ==
    /\ pc = "read"
    /\ retval = "running"
    /\ done.how = "answered"
    /\ done.calls = 1
    /\ Len(out) >= 1
    /\ LastOut.frame = done.frame
    /\ ~LastOut.body.hasError
    /\ LastOut.body.result.isError
    /\ LastOut.body.result.text = "request failed: context deadline exceeded"

\* The payload is not a JSON text, not an object, or has a jsonrpc or method
\* member that is not a string.
Undecodable(p) ==
    \/ p.shape \in {"invalid", "array"}
    \/ /\ p.shape = "object"
       /\ \/ p.jsonrpc.t \notin {"absent", "null", "str"}
          \/ p.method.t \notin {"absent", "null", "str"}

\* C10: an undecodable frame is dropped: Serve goes back to the read with
\* nothing written, no executor call and every variable but the frame count
\* as it was before the frame arrived, so later frames are handled as if it
\* had not been sent.
C10_BadFrameDropped ==
    [][(pc = "decode" /\ Undecodable(payload)) =>
          /\ pc' = "read"
          /\ payload' = NoPayload
          /\ done'.how = "dropped"
          /\ done'.calls = 0
          /\ UNCHANGED <<client, apiKey, req, result, rpcErr, pending, execRet,
                         wbuf, out, retval, ncalls>>]_vars

\* After a dropped first frame the second one was decoded and dispatched,
\* and is about to be answered.
C10_Witness ==
    /\ pc = "respond"
    /\ nread = 2
    /\ done.how = "dropped"
    /\ done.frame = 1
    /\ out = <<>>
    /\ LenID(req) # 0
    /\ req.Method = "ping"

\* ------------------------------------------------------ claims on streams
\* What the latest readMessage call returned.
LastRead == reads[Len(reads)]

\* Serve is about to call readMessage and the input left starts with the
\* i-th piece the client wrote.
AtPiece(i) ==
    /\ pc = "read"
    /\ i \in DOMAIN sent
    /\ reader.buf = Wire(SubSeq(sent, i, Len(sent)))

\* Serve has returned: nothing is read, answered or changed any more.
Returned_Final == pc = "done" => UNCHANGED vars

\* C11: when the input left starts with a complete header block whose
\* Content-Length is missing, not a number or not positive, readMessage
\* returns an error other than io.EOF, Serve returns a non-nil error in that
\* step, nothing is written for the block, and after Serve has returned no
\* further frame is read or answered.
C11_BadLengthFatal ==
    [][/\ \A i \in DOMAIN sent :
             AtPiece(i) /\ sent[i] \in BadHeaders =>
                 /\ LastRead'.err # NoError
                 /\ ~LastRead'.err.isEOF
                 /\ pc' = "done"
                 /\ retval' = "failed to read message"
                 /\ nread' = nread
                 /\ wbuf' = wbuf /\ out' = out
       /\ Returned_Final]_vars

\* Serve has failed on a header block with Content-Length 0 that came
\* first; the ping that follows it is still in the input, unanswered.
C11_Witness ==
    /\ pc = "done"
    /\ retval = "failed to read message"
    /\ Len(sent) = 2
    /\ sent[1] = BadHeader("Content-Length: 0\r\n\r\n")
    /\ LastRead.err = Errorf("invalid Content-Length value")
    /\ reader.buf = sent[2].wire
    /\ Written = <<>>

\* The i-th piece is a Content-Length frame whose header block arrived whole
\* and whose payload was cut after k of its bytes.
ShortPayload(i, k) ==
    /\ sent[i].kind = "cut"
    /\ sent[i].head # <<>>
    /\ Len(sent[i].wire) = Len(sent[i].head) + k
    /\ k < Len(sent[i].payload)

\* C12: when the stream ends (io.EOF) after a whole header block that
\* declares n > 0 and k < n bytes of payload, k = 0 included, readMessage
\* reports an error that is not io.EOF and Serve returns a non-nil error.
C12_ShortReadIsError ==
    [][\A i \in DOMAIN sent :
           \A k \in 0..Len(sent[i].payload) :
               AtPiece(i) /\ ShortPayload(i, k) /\ reader.end = EOF =>
                   /\ LastRead'.err # NoError
                   /\ ~LastRead'.err.isEOF
                   /\ pc' = "done"
                   /\ retval' = "failed to read message"]_vars

\* The piece is a whole message: ended as its framing requires, or a bare
\* line that lacks nothing but its newline.
Complete(p) ==
    \/ p.kind \in {"line", "framed"}
    \/ p.kind = "cut" /\ p.head = <<>> /\ TrimSpace(p.wire) = p.payload

\* The piece is a request that is due a response: it decodes, carries an id
\* and is not an initialized notification.
ExpectsAnswer(p) ==
    /\ Complete(p)
    /\ ParseJSON(p.payload).shape = "object"
    /\ ParseJSON(p.payload).id # Absent
    /\ ParseJSON(p.payload).method
           \notin {JStr("initialized"), JStr("notifications/initialized")}

\* The stream ends at a message boundary: after a whole message, or after
\* white space that no newline ends.
EndsAtBoundary ==
    \/ sent = <<>>
    \/ Complete(sent[Len(sent)])
    \/ sent[Len(sent)].kind = "space"

\* Nothing, or only white space without a newline, is left of the input.
OnlySpaceLeft ==
    /\ reader.end = EOF
    /\ "\n" \notin Range(reader.buf)
    /\ TrimSpace(reader.buf) = <<>>

\* The last piece is a line that starts with { and was cut before its
\* newline, and it is what is left of the input.
UnterminatedLine ==
    /\ AtPiece(Len(sent))
    /\ reader.end = EOF
    /\ sent[Len(sent)].kind = "cut"
    /\ sent[Len(sent)].head = <<>>
    /\ HasPrefix(reader.buf, <<"{">>)

\* C13: (a) reading at io.EOF with nothing or only white space buffered makes
\* Serve return nil; (b) a last line that starts with { and has no newline
\* is returned by readMessage as a payload and goes on to be decoded;
\* (c) once Serve has returned nil on a stream that ends at a message
\* boundary, the responses written are, in order, those of every request of
\* the stream that is due one, the unterminated last line included.
C13_CleanShutdown ==
    /\ [][/\ (pc = "read" /\ OnlySpaceLeft) =>
                (pc' = "done" /\ retval' = "nil" /\ LastRead'.err = EOF)
          /\ UnterminatedLine =>
                (/\ LastRead' = [payload |-> TrimSpace(reader.buf),
                                 err |-> NoError]
                 /\ pc' = "decode"
                 /\ payload' = ParseJSON(TrimSpace(reader.buf)))]_vars
    /\ [](retval = "nil" /\ EndsAtBoundary =>
             LET due == SelectSeq(sent, ExpectsAnswer)
             IN  /\ wbuf = <<>>
                 /\ Len(out) = Len(due)
                 /\ \A i \in DOMAIN due :
                        out[i].body.id = ParseJSON(due[i].payload).id)

\* A ping line and then a second ping without its newline were sent; both
\* were answered and Serve returned nil.
C13_Witness ==
    /\ retval = "nil"
    /\ sent = <<LineMessage(PingText, "\n"),
                Cut(LineMessage(PingText, "\n"), Len(PingText))>>
    /\ Len(out) = 2
    /\ out[2].body.id = JNum("1")
    /\ out[2].frame = 2

\* C14: when the input left starts with a Content-Length frame (the header
\* name in any letter case, other header lines before or after it, a
\* declared count n > 0 and the n bytes of payload behind the blank line),
\* readMessage returns exactly those n bytes and leaves the reader at the
\* first byte behind them.
C14_FramedPayloadExact ==
    [][\A i \in DOMAIN sent :
           AtPiece(i) /\ sent[i].kind = "framed" =>
               /\ LastRead' = [payload |-> sent[i].payload, err |-> NoError]
               /\ reader'.buf = Wire(SubSeq(sent, i + 1, Len(sent)))
               /\ pc' = "decode"]_vars

\* A frame with a Content-Type line before an upper-case CONTENT-LENGTH
\* line was read: its payload came back and the ping line behind it is
\* still in the reader.
C14_Witness ==
    /\ Len(reads) = 1
    /\ Len(sent) = 2
    /\ sent[1] = FramedMessage("Content-Type: application/json\r\n",
                               "CONTENT-LENGTH", "  ", "", "\r\n", NotifyText)
    /\ LastRead = [payload |-> NotifyText, err |-> NoError]
    /\ reader.buf = LineMessage(PingText, "\n").wire

\* The first line of a text, its newline included if it has one.
FirstLine(b) ==
    IF IndexByte(b, "\n") = 0 THEN b ELSE SubSeq(b, 1, IndexByte(b, "\n"))

AfterFirstLine(b) == SubSeq(b, Len(FirstLine(b)) + 1, Len(b))

\* The first line can be had: its newline is there, or the stream ends
\* with io.EOF.
FirstLineReadable(r) == IndexByte(r.buf, "\n") # 0 \/ r.end = EOF

\* A text from its first non-empty line on.
RECURSIVE SkipEmptyLines(_)
SkipEmptyLines(b) ==
    IF IndexByte(b, "\n") # 0 /\ TrimRight(FirstLine(b), {"\r", "\n"}) = <<>>
       THEN SkipEmptyLines(AfterFirstLine(b))
       ELSE b

\* C15 as stated: when the first non-empty line of the input left starts
\* with {, readMessage returns that line (without its line end) as the
\* payload.
C15_FirstNonEmptyLineVerbatim ==
    [][LET line == TrimRight(FirstLine(SkipEmptyLines(reader.buf)),
                             {"\r", "\n"})
       IN  /\ pc = "read"
           /\ FirstLineReadable(Reader(SkipEmptyLines(reader.buf), reader.end))
           /\ HasPrefix(line, <<"{">>)
           => LastRead' = [payload |-> line, err |-> NoError]]_vars

\* C15, amended: when the first line of the input left starts with { once
\* the white space around it is removed, readMessage returns that line
\* without the white space around it and without its line end, and consumes
\* that line only; a first line that is blank is not skipped but fails the
\* call with "received empty message".
C15_FirstLineTrimmed ==
    [][/\ (/\ pc = "read"
            /\ FirstLineReadable(reader)
            /\ HasPrefix(TrimSpace(FirstLine(reader.buf)), <<"{">>))
           => (/\ LastRead' = [payload |-> TrimSpace(FirstLine(reader.buf)),
                               err |-> NoError]
               /\ reader'.buf = AfterFirstLine(reader.buf))
       /\ (/\ pc = "read"
            /\ IndexByte(reader.buf, "\n") # 0
            /\ TrimSpace(FirstLine(reader.buf)) = <<>>)
           => (/\ LastRead'.err = Errorf("received empty message")
               /\ reader'.buf = AfterFirstLine(reader.buf))]_vars

\* A ping line with white space around it was read ahead of a
\* Content-Length frame: the text came back bare and the frame is untouched.
C15_Witness ==
    /\ Len(reads) = 1
    /\ Len(sent) = 2
    /\ sent[1] = PaddedLine(" \t", PingText, " \r\n")
    /\ sent[2].kind = "framed"
    /\ LastRead = [payload |-> PingText, err |-> NoError]
    /\ reader.buf = sent[2].wire

\* The client wrote whole messages only, each as a JSON line or as a
\* Content-Length frame, and then closed the stream.
WellFormedStream ==
    /\ \A i \in DOMAIN sent : sent[i].kind \in {"line", "framed"}
    /\ reader.end = EOF

\* C16: on a stream of well-formed messages in any mix of the two framings,
\* the i-th readMessage call returns the payload of the i-th message, the
\* call after the last message returns io.EOF, no call fails, and Serve
\* returns nil only after that last call.
C16_MixedFramings ==
    WellFormedStream =>
        /\ Len(reads) <= Len(sent) + 1
        /\ \A i \in DOMAIN reads :
               reads[i] = IF i <= Len(sent)
                             THEN [payload |-> sent[i].payload, err |-> NoError]
                             ELSE [payload |-> <<>>, err |-> EOF]
        /\ retval # "failed to read message"
        /\ retval = "nil" => Len(reads) = Len(sent) + 1

\* A Content-Length frame and then a JSON line were sent: two calls returned
\* their payloads and the third returned io.EOF.
C16_Witness ==
    /\ WellFormedStream
    /\ Len(sent) = 2
    /\ sent[1].kind = "framed"
    /\ sent[2].kind = "line"
    /\ Len(reads) = 3
    /\ reads[2].payload = sent[2].payload
    /\ reads[3].err = EOF
    /\ retval = "nil"

\* ------------------------------------------------- claims on the codec
\* The response Serve built in this iteration.
Built == Response(ResponseID(req), result, rpcErr)

\* The text is one Content-Length frame: the header line, whose value is in
\* decimal digits the number of bytes behind the blank line, the blank
\* line, and a JSON object.
OneFrame(o) ==
    LET name == Bytes("Content-Length: ")
        eol == IndexByte(o, "\r")
        digits == SubSeq(o, Len(name) + 1, eol - 1)
        body == SubSeq(o, eol + 4, Len(o))
    IN  /\ HasPrefix(o, name)
        /\ eol > Len(name) + 1
        /\ \A i \in DOMAIN digits : digits[i] \in Range(Digits)
        /\ digits[1] # "0"
        /\ HasPrefixAt(o, eol, Bytes("\r\n\r\n"))
        /\ DecimalValue(digits) = Len(body)
        /\ UnmarshalValue(body).ok
        /\ UnmarshalValue(body).val.t = "map"

\* C17: once writeMessage has returned, standard output holds exactly one
\* Content-Length frame for the response (header value = byte length of the
\* JSON body, blank line, body) and the writer's buffer is empty.
C17_FramedAndFlushed ==
    pc # "respond" => wbuf = <<>> /\ OneFrame(out)

\* The answer to a ping with id 7 has been written: 36 bytes of JSON behind
\* a header that says 36.
C17_Witness ==
    /\ pc = "written"
    /\ wbuf = <<>>
    /\ out = Bytes("Content-Length: 36\r\n\r\n")
             \o Bytes("{\"jsonrpc\":\"2.0\",\"id\":7,\"result\":{}}")

\* C18: what a client gets by reading the written frame with readMessage
\* and decoding it as a jsonRPCResponse is the id, result and error (as JSON
\* values) of the response that was written, and nothing is left over.
C18_RoundTrip ==
    pc = "read back" =>
        /\ LastRead.err = NoError
        /\ reader.buf = <<>>
        /\ UnmarshalResponse(LastRead.payload).ok
        /\ UnmarshalResponse(LastRead.payload).resp.JSONRPC = "2.0"
        /\ UnmarshalResponse(LastRead.payload).resp.ID = Built.ID
        /\ UnmarshalResponse(LastRead.payload).resp.Result
               = ResultValue(Built.Result)
        /\ UnmarshalResponse(LastRead.payload).resp.Error = Built.Error

\* A method-not-found error whose data holds quotes, <, &, a backslash and
\* a newline came back as it was, with the string id "a".
C18_Witness ==
    /\ pc = "read back"
    /\ req.ID = JStr("a")
    /\ rpcErr = MethodNotFound("say \"hi\" <&>\\\n")
    /\ UnmarshalResponse(LastRead.payload).resp.Error.Data
           = GoString("say \"hi\" <&>\\\n")
    /\ UnmarshalResponse(LastRead.payload).resp.ID = GoString("a")

\* ------------------------------------------------- claims on the dispatcher
\* The payload is a JSON object whose method is one of the two names of the
\* initialized notification.
IsInitialized(p) ==
    /\ p.shape = "object"
    /\ p.method \in {JStr("initialized"), JStr("notifications/initialized")}

\* C19: when the frame just read is an object whose method is initialized or
\* notifications/initialized, with an id or without one, the next step of
\* Serve goes straight back to reading the next frame: nothing is written or
\* buffered for output, no executor call is made or pending, and Serve has
\* not returned.
C19_InitializedAcknowledged ==
    [][(pc = "decode" /\ IsInitialized(payload)) =>
          /\ pc' = "read"
          /\ retval' = "running"
          /\ out' = out
          /\ wbuf' = wbuf
          /\ wbuf = <<>>
          /\ ncalls = 0
          /\ pending' = NoCall
          /\ done'.frame = nread
          /\ done'.calls = 0
          /\ done'.how \in {"acknowledged", "dropped"}]_vars

\* An initialized notification that carried the id 7 was acknowledged
\* without output and Serve has read the frame after it.
C19_Witness ==
    /\ pc = "decode"
    /\ nread = 2
    /\ done.frame = 1
    /\ done.how = "acknowledged"
    /\ done.id = JNum("7")
    /\ done.method = "initialized"
    /\ done.calls = 0
    /\ out = <<>>

\* --------------------------------------------- claims on what ends Serve
\* The errors readMessage returns because the input stream ended or failed:
\* the stream's own error, bare or wrapped by the payload read.
StreamErrors(end) ==
    {end, ErrorfW("failed to read payload: ", end),
     ErrorfW("failed to read payload: ", ErrUnexpectedEOF)}

\* The errors readMessage returns because of the bytes of one message.
FramingErrors ==
    {Errorf("received empty message"),
     Errorf("missing Content-Length header"),
     Errorf("invalid Content-Length value")}

WriteFailed == retval = "failed to write response"

\* Serve is between readMessage and the end of the iteration.
InIteration == pc \in {"decode", "dispatch", "call", "respond"}

\* C20 as stated: Serve has returned only if a write failed or readMessage
\* returned the error the input stream ended or failed with.
C20_OnlyStreamFailuresTerminate ==
    pc = "done" =>
        \/ WriteFailed
        \/ /\ reads # <<>>
           /\ LastRead.err \in StreamErrors(reader.end)

\* C20, amended: Serve returns only from readMessage reporting the end or a
\* failure of the input stream or a framing error (blank first line, missing
\* or unusable Content-Length), or from a failed write.  Once readMessage
\* has delivered a payload, nothing in it ends Serve: every step of the
\* iteration leaves Serve running except a failed write, and a step that
\* does not fail is always possible.
C20_OnlyFramingOrStreamFailuresTerminate ==
    /\ [](pc = "done" =>
            \/ WriteFailed /\ LastRead.err = NoError
            \/ /\ reads # <<>>
               /\ LastRead.err \in StreamErrors(reader.end) \cup FramingErrors
               /\ retval = IF LastRead.err.isEOF THEN "nil"
                                                 ELSE "failed to read message")
    /\ [](InIteration => ENABLED (Decode \/ Dispatch \/ ExecutorReturn \/ Respond))
    /\ [][InIteration =>
             \/ pc' # "done" /\ retval' = "running"
             \/ pc = "respond" /\ pc' = "done" /\ WriteFailed' /\ out' = out]_vars

\* A line that is not JSON was dropped and Serve read on; the blank line
\* after it ended Serve with an error although a message was still to come.
C20_Witness ==
    /\ pc = "done"
    /\ retval = "failed to read message"
    /\ Len(sent) = 3
    /\ Len(reads) = 2
    /\ reads[1] = [payload |-> GarbledText, err |-> NoError]
    /\ done.how = "dropped"
    /\ LastRead.err = Errorf("received empty message")
    /\ reader.buf = LineMessage(PingText, "\n").wire
    /\ out = <<>>

\* ------------------------------------------------ claims on the executor
\* The raw params name a registered tool and carry arguments its handler
\* accepts.
ValidToolCall(raw) ==
    /\ NamesTool(raw)
    /\ raw.name.v \in RegisteredTools
    /\ UnusableMessages(raw.name.v, ArgumentsOf(raw)) = {}

\* C21: the executor is entered only from the dispatch of a tools/call
\* request whose params name a registered tool with arguments that pass the
\* tool's validation, and at most once per request: while a call is pending
\* or counted the request is such a tools/call, and an iteration that made
\* a call was a tools/call that reached the id check; initialize, ping,
\* tools/list, initialized, unknown methods, undecodable frames, bad params
\* and unknown tools leave the count at zero.
C21_ExecutorOnlyForValidToolCall ==
    /\ [](/\ ncalls \in {0, 1}
          /\ done.calls \in {0, 1}
          /\ (pending # NoCall) <=> (pc = "call")
          /\ (ncalls = 1) =>
                (req.Method = "tools/call" /\ ValidToolCall(req.Params))
          /\ (done.calls = 1) =>
                (done.method = "tools/call" /\ Handled))
    /\ [][(ncalls' # 0 /\ ncalls' # ncalls) =>
             /\ pc = "dispatch"
             /\ pc' = "call"
             /\ ncalls = 0
             /\ ncalls' = 1
             /\ req.Method = "tools/call"
             /\ ValidToolCall(req.Params)]_vars
    /\ [][(pc = "dispatch" /\ ~(req.Method = "tools/call"
                                /\ ValidToolCall(req.Params))) =>
             (pc' = "respond" /\ ncalls' = 0 /\ pending' = NoCall)]_vars

\* tools/list was answered without a call, and the akuma.schema call of the
\* next request is in the executor.
C21_Witness ==
    /\ pc = "call"
    /\ ncalls = 1
    /\ nread = 2
    /\ req.Params.name = JStr("akuma.schema")
    /\ pending.path = "/v1/akuma/schema"
    /\ done.method = "tools/list"
    /\ done.how = "answered"
    /\ done.calls = 0

\* ------------------------------------------- claims on tool-call params
\* The params are absent or not a JSON object, or carry a name that is not
\* a string, or arguments that are not an object.
NotNameAndArguments(raw) ==
    \/ raw.p # "object"
    \/ raw.name.t \notin {"absent", "str"}
    \/ raw.a \notin {"absent", "object"}

\* The same, except that arguments given as null count as no arguments.
NotNameAndArgumentsOrNull(raw) ==
    \/ raw.p # "object"
    \/ raw.name.t \notin {"absent", "str"}
    \/ raw.a \notin {"absent", "null", "object"}

\* A tools/call with an id whose params satisfy bad is given an RPC error
\* -32602 and no result by the dispatch, with no executor call, and the
\* next step writes exactly that as one response and returns to the read
\* with Serve still running.
RejectedAsInvalidParams(bad(_)) ==
    LET case == /\ req.Method = "tools/call"
                /\ LenID(req) # 0
                /\ bad(req.Params)
    IN  /\ (pc = "dispatch" /\ case) =>
              /\ pc' = "respond"
              /\ result' = NilResult
              /\ ~rpcErr'.isNil
              /\ rpcErr'.Code = -32602
              /\ ncalls' = 0
              /\ pending' = NoCall
        /\ (pc = "respond" /\ case) =>
              /\ pc' = "read"
              /\ retval' = "running"
              /\ done'.calls = 0
              /\ Len(out') = Len(out) + 1
              /\ SubSeq(out', 1, Len(out)) = out
              /\ LET b == out'[Len(out')].body
                 IN  /\ ~b.hasResult
                     /\ b.hasError
                     /\ b.error.code = -32602

\* C22 as stated: a tools/call with an id whose params are absent or not an
\* object, whose name is not a string or whose arguments are not an object
\* is answered with an RPC error -32602 and no result, without an executor
\* call, and Serve reads on.
C22_BadParamsRejected ==
    [][RejectedAsInvalidParams(NotNameAndArguments)]_vars

\* C22 amended: the same for params that are absent or not an object, a
\* name that is not a string, or arguments that are neither an object nor
\* null.
C22_UndecodableParamsRejected ==
    [][RejectedAsInvalidParams(NotNameAndArgumentsOrNull)]_vars

\* A tools/call whose params did not decode was answered with -32602
\* "invalid tool call params" and the next frame has been read.
C22_Witness ==
    /\ pc = "decode"
    /\ nread = 2
    /\ done.frame = 1
    /\ done.method = "tools/call"
    /\ done.how = "answered"
    /\ done.calls = 0
    /\ Len(out) = 1
    /\ ~LastOut.body.hasResult
    /\ LastOut.body.error.code = -32602
    /\ LastOut.body.error.message = "invalid tool call params"

\* --------------------------------------------------- claims on initialize
\* The document initialize returns: protocol version, server name and
\* server version (its capabilities are the fixed {"tools": {}}).
FixedTriple == <<"2024-11-05", "kaizen-mcp", "1.0.0">>

\* C23: an initialize request with an id, whatever its params and whatever
\* was handled before it, is given the fixed document and no error by the
\* dispatch without an executor call, and the next step writes one response
\* with exactly that result and no error member.
C23_InitializeFixed ==
    [][/\ (pc = "dispatch" /\ req.Method = "initialize") =>
             /\ pc' = "respond"
             /\ rpcErr' = NilError
             /\ result'.k = "initialize"
             /\ result'.info = FixedTriple
             /\ ncalls' = 0
       /\ (pc = "respond" /\ req.Method = "initialize" /\ LenID(req) # 0) =>
             /\ Len(out') = Len(out) + 1
             /\ SubSeq(out', 1, Len(out)) = out
             /\ LET b == out'[Len(out')].body
                IN  /\ b.hasResult
                    /\ ~b.hasError
                    /\ b.result.k = "initialize"
                    /\ ~b.result.isError
                    /\ b.result.info = FixedTriple]_vars

\* After a tool call that was answered with the executor's data, an
\* initialize whose params are a JSON array is about to be answered with
\* the fixed document.
C23_Witness ==
    /\ pc = "respond"
    /\ nread = 2
    /\ req.Method = "initialize"
    /\ req.ID = JNum("7")
    /\ req.Params = ParamsArray
    /\ result.info = FixedTriple
    /\ rpcErr = NilError
    /\ done.method = "tools/call"
    /\ done.calls = 1
    /\ Len(out) = 1
    /\ out[1].body.result.k = "tool"

\* ----------------------------------------------------- claims on progress
\* The responses on standard output that answer frame f.
ResponsesTo(f) == {i \in DOMAIN out : out[i].frame = f}

\* C24: with a stream that delivers or ends, an output that accepts writes
\* and executor calls that return, every request that was decoded with an
\* id and is not an initialized notification is eventually answered, and
\* from then on standard output holds exactly one response to it; and Serve
\* never stays inside one request: from any point of an iteration it gets
\* back to reading the next frame.
C24_EventuallyAnswered ==
    /\ \A f \in 1..MaxLive :
          (pc = "dispatch" /\ nread = f /\ LenID(req) # 0)
              ~> [](Cardinality(ResponsesTo(f)) = 1)
    /\ (pc \in {"decode", "dispatch", "call", "respond"}) ~> (pc = "read")

\* A tools/call with an id went through the executor, was answered once,
\* and Serve is reading again.
C24_Witness ==
    /\ pc = "read"
    /\ nread = 2
    /\ done.frame = 2
    /\ done.how = "answered"
    /\ done.method = "tools/call"
    /\ done.calls = 1
    /\ Cardinality(ResponsesTo(2)) = 1

\* ------------------------------------------- claims on statelessness
\* What a request asks of the executor, from the payload alone: the call
\* handleToolCall hands over, or NoCall.
CallFor(p) ==
    LET u == UnmarshalRequest(p)
        h == HandleToolCall(u.req.Params)
    IN  IF u.ok /\ u.req.Method = "tools/call" /\ ~h.ret THEN h.call
                                                        ELSE NoCall

\* The response body to the request in payload p when the executor, if it
\* is called, returns o: a function of p and o and of nothing else.
AnswerTo(p, o) ==
    LET r == UnmarshalRequest(p).req
        h == HandleToolCall(r.Params)
        w == WrapOutcome(o)
        body(res, e) == MarshalResponse(Response(ResponseID(r), res, e))
    IN  CASE r.Method = "initialize" -> body(InitializeResult, NilError)
          [] r.Method = "ping" ->
                 body(Result("empty", FALSE, "", "", <<>>), NilError)
          [] r.Method = "tools/list" ->
                 body(Result("tools", FALSE, "", "", toolDefinitions), NilError)
          [] r.Method = "tools/call" ->
                 IF h.ret THEN body(h.result, h.rpcErr)
                          ELSE body(w.result, w.rpcErr)
          [] OTHER -> body(NilResult, MethodNotFound(r.Method))

\* C25: nothing is carried from one request to the next: whenever Serve is
\* about to read a frame its locals hold their zero values and nothing is
\* buffered; whether and with what the executor is called depends on the
\* frame alone; and the response written is the one determined by the
\* frame and the executor's outcome, whatever frames were handled before.
C25_NoStateBetweenRequests ==
    /\ [](pc = "read" =>
            /\ payload = NoPayload
            /\ req = ZeroRequest
            /\ result = NilResult
            /\ rpcErr = NilError
            /\ pending = NoCall
            /\ execRet = NoOutcome
            /\ ncalls = 0
            /\ wbuf = <<>>)
    /\ [][/\ (pc = "dispatch") =>
                /\ pending' = CallFor(payload)
                /\ (pc' = "call") <=> (CallFor(payload) # NoCall)
          /\ (pc = "respond" /\ LenID(req) # 0) =>
                /\ Len(out') = Len(out) + 1
                /\ SubSeq(out', 1, Len(out)) = out
                /\ out'[Len(out')].body = AnswerTo(payload, execRet)]_vars

\* tools/list was answered with the catalog as the second request, after a
\* first request that was not initialize and was answered with an error.
C25_Witness ==
    /\ pc = "read"
    /\ nread = 2
    /\ done.frame = 2
    /\ done.method = "tools/list"
    /\ done.how = "answered"
    /\ Len(out) = 2
    /\ out[1].body.hasError
    /\ out[2].body.result.k = "tools"
    /\ out[2].body.result.info = toolDefinitions

\* ------------------------------------------- claims on suppressed calls
\* The request in hand is a tools/call without id that names a registered
\* tool with arguments its handler accepts.
SilentToolCall ==
    /\ req.Method = "tools/call"
    /\ LenID(req) = 0
    /\ ValidToolCall(req.Params)

\* C26: a tools/call without id that names a registered tool with valid
\* arguments is dispatched like one with an id: the executor is entered
\* once, its return leads to the id check, and only there the response is
\* given up: nothing is written or buffered and Serve reads on, the
\* iteration having made exactly one call.
C26_SuppressedCallStillExecutes ==
    [][/\ (pc = "dispatch" /\ SilentToolCall) =>
             /\ pc' = "call"
             /\ ncalls = 0
             /\ ncalls' = 1
             /\ pending'.k = "call"
       /\ (pc = "call" /\ SilentToolCall) =>
             /\ pc' = "respond"
             /\ ncalls' = 1
             /\ execRet' \in ExecutorOutcomes(apiKey)
       /\ (pc = "respond" /\ SilentToolCall) =>
             /\ pc' = "read"
             /\ retval' = "running"
             /\ out' = out
             /\ wbuf' = wbuf
             /\ wbuf = <<>>
             /\ done'.how = "suppressed"
             /\ done'.calls = 1]_vars

\* An akuma.query call without id went through the executor and nothing
\* was written for it.
C26_Witness ==
    /\ pc = "read"
    /\ retval = "running"
    /\ done.frame = 1
    /\ done.how = "suppressed"
    /\ done.method = "tools/call"
    /\ done.id = Absent
    /\ done.calls = 1
    /\ out = <<>>
    /\ wbuf = <<>>

\* ------------------------------------------------- claims on the catalog
\* The tool names tools/list returns.
Catalog == {toolDefinitions[i] : i \in DOMAIN toolDefinitions}

\* handleToolCall has acted on the params and took the default branch of
\* its switch.
RejectedAsUnknown ==
    /\ pc = "respond"
    /\ ~rpcErr.isNil
    /\ rpcErr.Message = "unknown tool"

\* C27: the catalog lists each name once, and once handleToolCall has
\* acted on params that name a tool, it took the "unknown tool" branch
\* exactly when the name is not in the catalog: every listed name,
\* akuma.schema included, reaches its handler, and no name outside the
\* catalog does.
C27_CatalogIsRegistry ==
    /\ Cardinality(Catalog) = Len(toolDefinitions)
    /\ "akuma.schema" \in Catalog
    /\ (pc # "tool" /\ NamesTool(req.Params)) =>
          /\ RejectedAsUnknown <=> (req.Params.name.v \notin Catalog)
          /\ (pc = "call") => (req.Params.name.v \in Catalog)

\* handleToolCall returned the executor's data for akuma.schema.
C27_Witness ==
    /\ pc = "respond"
    /\ client = "set"
    /\ req.Params.name = JStr("akuma.schema")
    /\ ncalls = 1
    /\ execRet.ok
    /\ rpcErr = NilError
    /\ result.k = "tool"
    /\ ~result.isError

\* ------------------------------------------- claims on truncated headers
\* The i-th piece is the last one the client wrote, a Content-Length frame
\* of which the stream delivers only part of the header block: the first
\* header line without its end, or header lines without the blank line.
CutInHeader(i) ==
    /\ i = Len(sent)
    /\ sent[i].kind = "cut"
    /\ sent[i].head # <<>>
    /\ Len(sent[i].wire) < Len(sent[i].head)

\* C28: when the stream ends (io.EOF) inside the header block of a frame,
\* in its first line or before the blank separator line, Serve returns a
\* non-nil error and not a clean end of stream.
C28_TruncatedHeaderIsError ==
    [][\A i \in DOMAIN sent :
           (AtPiece(i) /\ CutInHeader(i) /\ reader.end = EOF) =>
               /\ pc' = "done"
               /\ retval' = "failed to read message"]_vars

====
